---- MODULE Spec2Model ----
(***************************************************************************)
(* CacheSC (Miro-H/CacheSC): the Prime+Probe data structure, its builders  *)
(* (virtual, privileged physical, unprivileged physical), the topology     *)
(* assembly, the traversal primitives and the teardown, as a state machine.*)
(*                                                                         *)
(* Addresses are byte addresses.  A cacheline record occupies              *)
(* CACHELINE_SIZE bytes, a page holds CACHE_GROUP_SIZE records.  The cache *)
(* geometry is scaled down: a page holds 2^LinesPerPageLog2 lines, a cache *)
(* has CACHE_GROUP_SIZE * 2^e sets (e <= MaxGroupExp) and 1..MaxAssoc ways.*)
(***************************************************************************)
EXTENDS Integers, Sequences, FiniteSets, TLC

\* ------------------------------------------------------------- bounds
LinesPerPageLog2 == 1
MaxGroupExp == 1
MaxAssoc == 3
MaxDirty == 1
MaxLines == 8
MaxRejected == 4
MaxSetsLen == 2
MaxSetsExp == 4
MaxFds == 2
TimeBits == 2
MaxLevel == 2
MaxListLines == 4
MaxPermLen == 3
WordBits == 3
MaxPfn == 2
RandMax == 3

\* ------------------------------------------------- device_conf / types
CACHELINE_SIZE == 64
PAGE_SIZE == CACHELINE_SIZE * (2 ^ LinesPerPageLog2)
CACHE_GROUP_SIZE == PAGE_SIZE \div CACHELINE_SIZE

NULL == 0
VIRTUAL == "VIRTUAL"
PHYSICAL == "PHYSICAL"

DEFAULT_FLAGS == 0

\* time_msrmt of a line that was in the cache, and of one that was not
HIT_TIME == 1
MISS_TIME == 2

\* ------------------------------------------------------ bit arithmetic
RECURSIVE BitAnd(_, _)
BitAnd(a, b) ==
    IF a = 0 \/ b = 0 THEN 0
    ELSE (IF a % 2 = 1 /\ b % 2 = 1 THEN 1 ELSE 0) + 2 * BitAnd(a \div 2, b \div 2)

RECURSIVE BitOr(_, _)
BitOr(a, b) ==
    IF a = 0 THEN b
    ELSE IF b = 0 THEN a
    ELSE (IF a % 2 = 1 \/ b % 2 = 1 THEN 1 ELSE 0) + 2 * BitOr(a \div 2, b \div 2)

RECURSIVE BitXor(_, _)
BitXor(a, b) ==
    IF a = 0 THEN b
    ELSE IF b = 0 THEN a
    ELSE (IF a % 2 # b % 2 THEN 1 ELSE 0) + 2 * BitXor(a \div 2, b \div 2)

\* ptr & ~mask
BitClear(a, mask) == a - BitAnd(a, mask)

GET_BIT(b, i) == (b \div (2 ^ i)) % 2
SET_BIT(b, i) == BitOr(b, 2 ^ i)

SET_FIRST(flags) == SET_BIT(flags, 0)
SET_LAST(flags) == SET_BIT(flags, 1)
SET_CACHE_GROUP_INIT(flags) == SET_BIT(flags, 2)
IS_FIRST(flags) == GET_BIT(flags, 0)
IS_LAST(flags) == GET_BIT(flags, 1)
IS_CACHE_GROUP_INIT(flags) == GET_BIT(flags, 2)

SET_MASK(SETS) == BitXor(SETS * CACHELINE_SIZE - 1, CACHELINE_SIZE - 1)

\* ------------------------------------------------------- cache context
get_cache_ctx(addressing, sets, associativity) ==
    [addressing       |-> addressing,
     sets             |-> sets,
     associativity    |-> associativity,
     nr_of_cachelines |-> sets * associativity,
     set_size         |-> CACHELINE_SIZE * associativity,
     cache_size       |-> sets * (CACHELINE_SIZE * associativity)]

SetCounts == {CACHE_GROUP_SIZE * (2 ^ e) : e \in 0..MaxGroupExp}

\* enum cache_level {L1, L2}; a caller can pass any other value as well
L1 == 0
L2 == 1

\* seeded fault: an unknown level stops the program
get_cache_ctx_level_abort(conf, cache_level, malloc_ok) ==
    IF ~malloc_ok \/ cache_level \notin {L1, L2}
    THEN [outcome |-> "aborted", ret |-> <<>>, lost |-> 0]
    ELSE [outcome |-> "returned", lost |-> 0,
          ret |-> <<get_cache_ctx(conf[cache_level].addressing, conf[cache_level].sets, conf[cache_level].associativity)>>]

\* get_cache_ctx for a level, conf[L1] and conf[L2] being the L1_* and L2_*
\* macros: ret is <<>> for NULL and <<c>> for a pointer to c; lost counts
\* the blocks it allocated and neither returned nor freed
get_cache_ctx_level(conf, cache_level, malloc_ok) ==
    IF ~malloc_ok
    THEN [outcome |-> "aborted", ret |-> <<>>, lost |-> 0]
    ELSE IF cache_level \in {L1, L2}
    THEN [outcome |-> "returned", lost |-> 0,
          ret |-> <<get_cache_ctx(conf[cache_level].addressing, conf[cache_level].sets, conf[cache_level].associativity)>>]
    ELSE [outcome |-> "returned", ret |-> <<>>, lost |-> 1]

Contexts ==
    {c \in {get_cache_ctx(a, s, w) :
                a \in {VIRTUAL, PHYSICAL}, s \in SetCounts, w \in 1..MaxAssoc} :
        c.nr_of_cachelines <= MaxLines}

\* ------------------------------------------------- address -> set index
remove_cache_set(c, ptr) == BitClear(ptr, SET_MASK(c.sets))
remove_cache_group_set(ptr) == BitClear(ptr, SET_MASK(CACHE_GROUP_SIZE))
\* seeded fault: the helper that masks with the bits of the page offset only
get_cache_set_helper_page_bits(sets, ptr) ==
    BitAnd(ptr, SET_MASK(CACHE_GROUP_SIZE)) \div CACHELINE_SIZE

get_cache_set_helper(sets, ptr) == BitAnd(ptr, SET_MASK(sets)) \div CACHELINE_SIZE
get_virt_cache_set(c, ptr) == get_cache_set_helper(c.sets, ptr)

\* ---------------------------------------------------- cacheline record
cacheline(nx, pv, cs, fl, tm) ==
    [next |-> nx, prev |-> pv, cache_set |-> cs, flags |-> fl, time_msrmt |-> tm]

\* ------------------------------------------------------------ list ops
\* Each operator maps the memory (line address -> record) to the memory
\* after the C statements, applied in program order.
cl_replace(m, new_cl, old_cl) ==
    LET m1 == [m  EXCEPT ![m[old_cl].next].prev = new_cl]
        m2 == [m1 EXCEPT ![m1[old_cl].prev].next = new_cl]
        m3 == [m2 EXCEPT ![new_cl].next = m2[old_cl].next]
    IN  [m3 EXCEPT ![new_cl].prev = m3[old_cl].prev]

cl_insert(m, last_cl, new_cl) ==
    IF last_cl = NULL
    THEN [m EXCEPT ![new_cl].next = new_cl, ![new_cl].prev = new_cl]
    ELSE LET m1 == [m  EXCEPT ![new_cl].next = m[last_cl].next]
             m2 == [m1 EXCEPT ![new_cl].prev = last_cl]
             m3 == [m2 EXCEPT ![m2[last_cl].next].prev = new_cl]
         IN  [m3 EXCEPT ![last_cl].next = new_cl]

\* seeded fault: cl_remove that forgets cl->next->prev = cl->prev
cl_remove_half(m, cl) ==
    IF m[cl].prev # NULL
    THEN [m EXCEPT ![m[cl].prev].next = m[cl].next] ELSE m

cl_remove(m, cl) ==
    LET m1 == IF m[cl].prev # NULL
              THEN [m EXCEPT ![m[cl].prev].next = m[cl].next] ELSE m
    IN  IF m1[cl].next # NULL
        THEN [m1 EXCEPT ![m1[cl].next].prev = m1[cl].prev] ELSE m1

\* ---------------------------------------------------------- traversals
\* A walk over a finite memory that has not come back to its start after
\* as many steps as there are lines never comes back: the fuel below is
\* the number of lines, and "terminates" is FALSE when it runs out.
\* "fault" reports a dereference of an address that holds no live line.
RECURSIVE get_cache_ds_len_loop(_, _, _, _, _)
get_cache_ds_len_loop(m, cache_ds, curr_cl, cnt, fuel) ==
    IF curr_cl = NULL
    THEN [terminates |-> TRUE, fault |-> FALSE, cnt |-> cnt]
    ELSE IF curr_cl \notin DOMAIN m
    THEN [terminates |-> FALSE, fault |-> TRUE, cnt |-> cnt]
    ELSE IF m[curr_cl].prev = cache_ds
    THEN [terminates |-> TRUE, fault |-> FALSE, cnt |-> cnt + 1]
    ELSE IF fuel = 0
    THEN [terminates |-> FALSE, fault |-> FALSE, cnt |-> cnt + 1]
    ELSE get_cache_ds_len_loop(m, cache_ds, m[curr_cl].prev, cnt + 1, fuel - 1)

get_cache_ds_len(m, cache_ds) ==
    get_cache_ds_len_loop(m, cache_ds, cache_ds, 0, Cardinality(DOMAIN m))

\* ret = 0: every set holds exactly `associativity` lines; ret = 1 otherwise.
RECURSIVE cache_ds_sanity_check_loop(_, _, _, _, _, _)
cache_ds_sanity_check_loop(m, c, head, curr_cl, line_cnt_arr, fuel) ==
    IF curr_cl \notin DOMAIN m \/ m[curr_cl].next \notin DOMAIN m
       \/ m[m[curr_cl].next].cache_set \notin DOMAIN line_cnt_arr
    THEN [terminates |-> FALSE, fault |-> TRUE, ret |-> 1]
    ELSE LET nxt == m[curr_cl].next
             cnt == [line_cnt_arr EXCEPT ![m[nxt].cache_set] = @ + 1]
         IN  IF nxt = head
             THEN [terminates |-> TRUE, fault |-> FALSE,
                   ret |-> IF \E i \in 0..(c.sets - 1) : cnt[i] # c.associativity
                           THEN 1 ELSE 0]
             ELSE IF fuel = 0
             THEN [terminates |-> FALSE, fault |-> FALSE, ret |-> 1]
             ELSE cache_ds_sanity_check_loop(m, c, head, nxt, cnt, fuel - 1)

cache_ds_sanity_check(m, c, head) ==
    cache_ds_sanity_check_loop(m, c, head, head, [i \in 0..(c.sets - 1) |-> 0],
                               Cardinality(DOMAIN m))

\* --------------------------------------------------- random permutation
swap(arr, e1, e2) == [arr EXCEPT ![e1] = arr[e2], ![e2] = arr[e1]]

\* rands[k] is the result of the k-th call of rand()
RECURSIVE random_perm_loop(_, _, _, _)
random_perm_loop(arr, i, rands, k) ==
    IF i > 0
    THEN random_perm_loop(swap(arr, i, rands[k] % i), i - 1, rands, k + 1)
    ELSE arr

\* the builders call it with arr_len >= 1, where arr_len - 1 does not wrap
random_perm(arr, arr_len, rands) ==
    random_perm_loop(arr, arr_len - 1, rands, 0)

gen_random_indices(arr_len, rands) ==
    random_perm([i \in 0..(arr_len - 1) |-> i], arr_len, rands)

RandSeqs(n) == [0..(n - 2) -> 0..RandMax]
\* the index maps gen_random_indices can return for an array of n entries
PermOutcomes(n) == {gen_random_indices(n, rs) : rs \in RandSeqs(n)}

\* ----------------------------------------------------- topology assembly
RECURSIVE build_randomized_list_loop(_, _, _, _, _)
build_randomized_list_loop(m, len, cacheline_ptr_arr, idx_map, i) ==
    IF i >= len THEN m
    ELSE LET curr_cl == cacheline_ptr_arr[idx_map[i]]
             m1 == [m  EXCEPT ![curr_cl].next = cacheline_ptr_arr[idx_map[(i + 1) % len]]]
             m2 == [m1 EXCEPT ![curr_cl].prev =
                                  cacheline_ptr_arr[idx_map[(len - 1 + i) % len]]]
             m3 == [m2 EXCEPT ![curr_cl].time_msrmt = 0]
             m4 == IF curr_cl = cacheline_ptr_arr[0]
                   THEN LET f1 == [m3 EXCEPT ![curr_cl].flags = SET_FIRST(DEFAULT_FLAGS)]
                        IN  [f1 EXCEPT ![f1[curr_cl].prev].flags = SET_LAST(DEFAULT_FLAGS)]
                   ELSE [m3 EXCEPT ![curr_cl].flags = BitOr(m3[curr_cl].flags, DEFAULT_FLAGS)]
         IN  build_randomized_list_loop(m4, len, cacheline_ptr_arr, idx_map, i + 1)

\* cacheline_ptr_arr: the `associativity` line pointers of one set, from 0
build_randomized_list_for_cache_set(m, c, cacheline_ptr_arr, idx_map) ==
    build_randomized_list_loop(m, c.associativity, cacheline_ptr_arr, idx_map, 0)

\* "Build ptr list sorted by sets": st = [sorted, idx_per_set, overflow].
\* cl_ptr_arr_sorted comes from malloc: a slot the loop never writes holds
\* no line (NULL here).  overflow: the loop wrote past the end of the array.
RECURSIVE sort_by_sets_loop(_, _, _, _, _)
sort_by_sets_loop(m, c, cl_ptr_arr, st, i) ==
    IF i >= c.nr_of_cachelines THEN st
    ELSE LET cs           == m[cl_ptr_arr[i]].cache_set
             set_offset   == cs * c.associativity
             idx_curr_set == st.idx_per_set[cs]
         IN  IF cs \notin DOMAIN st.idx_per_set
                \/ set_offset + idx_curr_set \notin DOMAIN st.sorted
             THEN [st EXCEPT !.overflow = TRUE]
             ELSE sort_by_sets_loop(m, c, cl_ptr_arr,
                      [sorted      |-> [st.sorted EXCEPT
                                           ![set_offset + idx_curr_set] = cl_ptr_arr[i]],
                       idx_per_set |-> [st.idx_per_set EXCEPT ![cs] = @ + 1],
                       overflow    |-> FALSE],
                      i + 1)

sort_by_sets(m, c, cl_ptr_arr) ==
    sort_by_sets_loop(m, c, cl_ptr_arr,
        [sorted      |-> [j \in 0..(c.nr_of_cachelines - 1) |-> NULL],
         idx_per_set |-> [s \in 0..(c.sets - 1) |-> 0],
         overflow    |-> FALSE], 0)

RECURSIVE build_sets_loop(_, _, _, _, _)
build_sets_loop(m, c, sorted, line_idx_maps, set) ==
    IF set >= c.sets THEN m
    ELSE build_sets_loop(
             build_randomized_list_for_cache_set(m, c,
                 [j \in 0..(c.associativity - 1) |-> sorted[set * c.associativity + j]],
                 line_idx_maps[set]),
             c, sorted, line_idx_maps, set + 1)

\* seeded fault: the relink loop without curr_cl->next->prev = curr_cl
RECURSIVE relink_loop_no_prev(_, _, _, _, _, _)
relink_loop_no_prev(m, c, sorted, idx_map, curr_cl, i) ==
    IF i >= c.sets THEN m
    ELSE LET m1 == [m EXCEPT ![curr_cl].next =
                                 sorted[idx_map[(i + 1) % c.sets] * c.associativity]]
         IN  relink_loop_no_prev(m1, c, sorted, idx_map, m1[m1[curr_cl].next].prev, i + 1)

\* "Relink the sets among each other"
RECURSIVE relink_loop(_, _, _, _, _, _)
relink_loop(m, c, sorted, idx_map, curr_cl, i) ==
    IF i >= c.sets THEN m
    ELSE LET m1 == [m EXCEPT ![curr_cl].next =
                                 sorted[idx_map[(i + 1) % c.sets] * c.associativity]]
             next_cl == m1[m1[curr_cl].next].prev
             m2 == [m1 EXCEPT ![m1[curr_cl].next].prev = curr_cl]
         IN  relink_loop(m2, c, sorted, idx_map, next_cl, i + 1)

\* the three loops after the sort, on a sorted array that is full
build_linked(m, c, sorted, line_idx_maps, idx_map) ==
    LET m1 == build_sets_loop(m, c, sorted, line_idx_maps, 0)
    IN  [mem      |-> relink_loop(m1, c, sorted, idx_map,
                                  m1[sorted[idx_map[0] * c.associativity]].prev, 0),
         cache_ds |-> sorted[idx_map[0] * c.associativity],
         fault    |-> FALSE]

\* s: what the sort left
build_sorted(m, c, s, line_idx_maps, idx_map) ==
    IF s.overflow \/ \E k \in DOMAIN s.sorted : s.sorted[k] = NULL
    THEN [mem |-> m, cache_ds |-> NULL, fault |-> TRUE]
    ELSE build_linked(m, c, s.sorted, line_idx_maps, idx_map)

\* line_idx_maps[s]: the index map drawn for set s; idx_map: the one drawn
\* for the order of the sets.  Returns the memory and the entry line; fault:
\* the sets do not hold `associativity` lines each, so that the sort writes
\* outside the array or the loops after it follow a pointer nobody wrote.
build_cache_ds(m, c, cl_ptr_arr, line_idx_maps, idx_map) ==
    build_sorted(m, c, sort_by_sets(m, c, cl_ptr_arr), line_idx_maps, idx_map)

\* ------------------------------------------------------------------ heap
\* heap[b]: a block aligned_alloc returned at address b, its size in bytes
\* and the number of times b was passed to free.  wild: addresses passed
\* to free that are no block.  mem holds the lines of the live blocks.
BlockLines(base, size) ==
    {base + k * CACHELINE_SIZE : k \in 0..((size \div CACHELINE_SIZE) - 1)}

Live(h) == {b \in DOMAIN h : h[b].frees = 0}

HeapAlloc(h, base, size) ==
    [b \in DOMAIN h \cup {base} |->
        IF b = base THEN [size |-> size, frees |-> 0] ELSE h[b]]

HeapFree(h, p) ==
    IF p \in DOMAIN h THEN [h EXCEPT ![p].frees = @ + 1] ELSE h

WildFree(w, h, p) == IF p \in DOMAIN h THEN w ELSE w \cup {p}

MemFree(m, h, p) ==
    IF p \in DOMAIN h
    THEN [a \in DOMAIN m \ BlockLines(p, h[p].size) |-> m[a]]
    ELSE m

\* the three, for a sequence of addresses freed one after the other
RECURSIVE FreeAll(_, _, _)
FreeAll(st, ptrs, i) ==
    IF i > Len(ptrs) THEN st
    ELSE FreeAll([heap |-> HeapFree(st.heap, ptrs[i]),
                  wild |-> WildFree(st.wild, st.heap, ptrs[i]),
                  mem  |-> MemFree(st.mem, st.heap, ptrs[i])], ptrs, i + 1)

\* ----------------------------------------------------------------- state
VARIABLES
    ctx,                \* the cache_ctx of the run
    priv,               \* can_trans_phys_addrs: the pagemap shows frame numbers
    req,                \* the set list handed to prepare_cache_set_ds, if any
    pc,                 \* where the caller is
    mem,                \* line address -> cacheline record
    heap, wild,         \* aligned_alloc / free bookkeeping
    brk,                \* index of the next page the allocator hands out
    cl_ptr_arr,         \* allocate_cache_ds: the line pointers, from 0
    cl_ptr_idx,         \* lines stored in cl_ptr_arr so far
    cnt_lines_per_set,  \* privileged builder: lines per physical set
    cls_to_del,         \* head of the chain of rejected pages
    cl_candidates,      \* physical builders: the page under test
    frame,              \* page base -> physical frame number
    rejected,           \* pages rejected so far
    cache_ds,           \* the entry line handed to the caller
    walk,               \* the last prime / prime_rev call and what it did
    removed,            \* the line a caller unlinked with cl_remove, if any
    ptrs_to_free_idx,   \* release_cache_ds: the most pointers it collected
    oracle,             \* how the timing test of has_collision answers
    cache_set_ds_ptrs,  \* unprivileged builder: the candidate ring of each offset
    cache_set_ds_lens,  \* ... and the number of lines on it
    cache_group,        \* ... the cache groups identified so far
    repeated_collisions, \* ... pages in a row that collided as a whole
    pagemap,            \* /proc/pid/pagemap: page number -> its 64-bit entry
    open_fds,           \* the file descriptors the process holds open
    trans,              \* the last get_phys_addr call and what it did
    ctx_call            \* the device configuration, the last get_cache_ctx call

transVars  == <<pagemap, open_fds, trans>>
envVars    == <<ctx, priv, oracle, transVars, ctx_call>>
heapVars   == <<mem, heap, wild, frame, brk>>
allocVars  == <<cl_ptr_arr, cl_ptr_idx, cls_to_del, rejected, cl_candidates>>
unprivVars == <<cache_set_ds_ptrs, cache_set_ds_lens, cache_group,
                repeated_collisions>>
callerVars == <<req, cache_ds, walk, removed, ptrs_to_free_idx>>

vars == <<pc, envVars, heapVars, allocVars, cnt_lines_per_set, unprivVars, callerVars>>

NoWalk == [fn |-> "none", head |-> NULL, terminates |-> FALSE, steps |-> 0,
           visited |-> <<>>, ret |-> NULL]

\* the set lists a caller of prepare_cache_set_ds passes: distinct valid sets
SetLists(c) ==
    {l \in UNION {[1..n -> 0..(c.sets - 1)] : n \in 1..MaxSetsLen} :
        \A i, j \in DOMAIN l : i # j => l[i] # l[j]}

NoEntry == [ret |-> 1, offset |-> -1, pfn |-> 0, soft_dirty |-> 0, file_page |-> 0, swapped |-> 0, present |-> 0]
NoTrans == [fn |-> "none", vaddr |-> 0, ret |-> 0, wrote |-> FALSE, paddr |-> 0, pagemap_fd |-> -1, entry |-> NoEntry, fds |-> {}]

BuilderInit ==
    /\ ctx \in Contexts
    /\ priv \in (IF ctx.addressing = PHYSICAL THEN BOOLEAN ELSE {FALSE})
    /\ req = <<>>
    /\ pc = "start"
    /\ mem = <<>>
    /\ heap = <<>>
    /\ wild = {}
    /\ brk = 1
    /\ cl_ptr_arr = <<>>
    /\ cl_ptr_idx = 0
    /\ cnt_lines_per_set = <<>>
    /\ cls_to_del = NULL
    /\ cl_candidates = NULL
    /\ frame = <<>>
    /\ rejected = 0
    /\ cache_ds = NULL
    /\ walk = NoWalk
    /\ removed = NULL
    /\ ptrs_to_free_idx = 0
    /\ oracle \in (IF ctx.addressing = PHYSICAL /\ ~priv THEN {"exact", "noisy"}
                                                       ELSE {"none"})
    /\ cache_set_ds_ptrs = <<>>
    /\ cache_set_ds_lens = <<>>
    /\ cache_group = 0
    /\ repeated_collisions = 0

\* the builders and their callers: their translations read FramePagemap
NoCtxCall == [fn |-> "none", cache_level |-> L1, malloc_ok |-> TRUE, outcome |-> "none", ret |-> <<>>, lost |-> 0]

Init ==
    /\ BuilderInit
    /\ ctx_call = [conf |-> <<>>] @@ NoCtxCall
    /\ pagemap = <<>>
    /\ open_fds = {}
    /\ trans = NoTrans

\* -------------------------------------------------- allocate_cache_ds
FlagValues == 1..7

\* the uninitialised flags: at most MaxDirty lines hold a nonzero value
Garbage(lines) ==
    UNION {[D -> FlagValues] :
             D \in {S \in SUBSET lines : Cardinality(S) <= MaxDirty}}

\* VIRTUAL: one block of cache_size bytes, page aligned, not zeroed.  next,
\* prev and time_msrmt are uninitialised as well; the build writes each of
\* them before it reads it, so they are kept NULL / 0 here.
AllocateVirtual ==
    /\ pc = "start"
    /\ ctx.addressing = VIRTUAL
    /\ \E page \in {brk, brk + 1} :
         LET cl_arr == page * PAGE_SIZE
             lines  == BlockLines(cl_arr, ctx.cache_size)
         IN  \E g \in Garbage(lines) :
               /\ mem' = [a \in lines |->
                            cacheline(NULL, NULL, get_virt_cache_set(ctx, a),
                                      IF a \in DOMAIN g THEN g[a] ELSE 0, 0)]
               /\ heap' = HeapAlloc(heap, cl_arr, ctx.cache_size)
               /\ brk' = page + (ctx.cache_size \div PAGE_SIZE)
               /\ cl_ptr_arr' = [i \in 0..(ctx.nr_of_cachelines - 1) |->
                                    cl_arr + i * CACHELINE_SIZE]
               /\ cl_ptr_idx' = ctx.nr_of_cachelines
    /\ pc' = "allocated"
    /\ UNCHANGED <<envVars, wild, frame, cls_to_del, rejected, cl_candidates,
                   cnt_lines_per_set,
                   unprivVars, callerVars>>

\* ----------------------------------------------- address translation
\* A pagemap entry is 64 bits wide: lo holds bits 0..53, hi bits 54..63.
PM_PRESENT == 2^9
PM_SWAPPED == 2^8
PM_FILE_PAGE == 2^7

\* pread of one whole entry (procfs serves the pagemap in whole entries):
\* the bytes read, or 0 at the end of the file, or -1 on an error
pread(pm, rd_err, offset) ==
    IF rd_err THEN [ret |-> -1, data |-> [lo |-> 0, hi |-> 0]]
    ELSE IF offset % 8 = 0 /\ (offset \div 8) \in DOMAIN pm
    THEN [ret |-> 8, data |-> pm[offset \div 8]]
    ELSE [ret |-> 0, data |-> [lo |-> 0, hi |-> 0]]

pagemap_get_entry_parse(offset, r) ==
    IF r.ret <= 0
    THEN [ret |-> 1, offset |-> offset, pfn |-> 0, soft_dirty |-> 0, file_page |-> 0, swapped |-> 0, present |-> 0]
    ELSE [ret |-> 0, offset |-> offset,
          pfn |-> r.data.lo,
          soft_dirty |-> r.data.hi % 2,
          file_page |-> (r.data.hi \div PM_FILE_PAGE) % 2,
          swapped |-> (r.data.hi \div PM_SWAPPED) % 2,
          present |-> (r.data.hi \div PM_PRESENT) % 2]

pagemap_get_entry(pm, rd_err, vaddr) ==
    pagemap_get_entry_parse((vaddr \div PAGE_SIZE) * 8, pread(pm, rd_err, (vaddr \div PAGE_SIZE) * 8))

\* open returns the least descriptor not in use, or fails
open(fds, open_ok) ==
    IF open_ok /\ Cardinality(fds) < MaxFds
    THEN CHOOSE fd \in 0..MaxFds : fd \notin fds /\ \A g \in 0..(fd - 1) : g \in fds
    ELSE -1

get_phys_addr_rest(fds, pagemap_fd, entry, vaddr) ==
    IF entry.ret # 0
    THEN [ret |-> 1, wrote |-> FALSE, paddr |-> 0, pagemap_fd |-> pagemap_fd, entry |-> entry, fds |-> fds \cup {pagemap_fd}]
    ELSE IF entry.pfn = 0
    THEN [ret |-> 1, wrote |-> FALSE, paddr |-> 0, pagemap_fd |-> pagemap_fd, entry |-> entry, fds |-> fds]
    ELSE [ret |-> 0, wrote |-> TRUE, paddr |-> entry.pfn * PAGE_SIZE + (vaddr % PAGE_SIZE), pagemap_fd |-> pagemap_fd, entry |-> entry, fds |-> fds]

\* the whole call: what it returns, whether and what it wrote to *paddr, the
\* descriptor it got, the entry it read (entry.offset: where it read) and
\* the descriptors open afterwards
get_phys_addr_call(pm, fds, open_ok, rd_err, vaddr) ==
    IF open(fds, open_ok) < 0
    THEN [ret |-> 1, wrote |-> FALSE, paddr |-> 0, pagemap_fd |-> -1, entry |-> NoEntry, fds |-> fds]
    ELSE get_phys_addr_rest(fds, open(fds, open_ok), pagemap_get_entry(pm, rd_err, vaddr), vaddr)

\* The builders translate addresses of pages they have just written, with
\* the pagemap readable: the entry of such a page is present and shows
\* its frame number only to a privileged process.
FramePagemap(fr, pv) ==
    [vpn \in {b \div PAGE_SIZE : b \in DOMAIN fr} |-> [lo |-> IF pv THEN fr[vpn * PAGE_SIZE] ELSE 0, hi |-> PM_PRESENT]]

get_phys_addr(fr, pv, vaddr) ==
    get_phys_addr_call(FramePagemap(fr, pv), {}, TRUE, FALSE, vaddr)

\* the local variable of can_trans_phys_addrs, on the stack page
StackAddr == 8

can_trans_phys_addrs(pv) == pv

get_phys_cache_set(c, fr, pv, ptr) ==
    get_cache_set_helper(c.sets, get_phys_addr(fr, pv, ptr).paddr)

\* The allocator maps a fresh page to a frame nobody uses.  Only the frame
\* number modulo the number of cache groups decides the sets of its lines,
\* so the least unused frame of each residue stands for all of them.
FreshFrames(c, fr) ==
    LET groups == c.sets \div CACHE_GROUP_SIZE
        used   == {fr[b] : b \in DOMAIN fr}
        least(g) == CHOOSE f \in 1..(Cardinality(used) + 1) * groups + groups :
                      /\ f % groups = g
                      /\ f \notin used
                      /\ \A f2 \in 1..(f - 1) : ~(f2 % groups = g /\ f2 \notin used)
    IN  {least(g) : g \in 0..(groups - 1)}

\* An unprivileged builder sees frames through the clock alone; when the clock
\* is disturbed the frame of a page has no effect and the least one stands for
\* all.
UnprivFrames(c, fr, orc) ==
    IF orc = "noisy"
    THEN {CHOOSE f \in FreshFrames(c, fr) : \A g \in FreshFrames(c, fr) : f <= g}
    ELSE FreshFrames(c, fr)

ZeroPage(base) == [a \in BlockLines(base, PAGE_SIZE) |-> cacheline(NULL, NULL, 0, 0, 0)]

MemAlloc(m, new) == [a \in DOMAIN m \cup DOMAIN new |-> IF a \in DOMAIN new THEN new[a] ELSE m[a]]

FrameSet(fr, base, pfn) == [b \in DOMAIN fr \cup {base} |-> IF b = base THEN pfn ELSE fr[b]]

\* the chain of rejected pages, followed through prev until NULL
RECURSIVE ChainPtrs(_, _)
ChainPtrs(m, cl_to_del) ==
    IF cl_to_del = NULL \/ cl_to_del \notin DOMAIN m THEN <<>>
    ELSE <<cl_to_del>> \o ChainPtrs(m, m[cl_to_del].prev)

\* --------------------------------------------- allocate_cache_ds_phys
AllocatePhys ==
    /\ pc = "start"
    /\ ctx.addressing = PHYSICAL
    /\ cls_to_del' = NULL
    /\ cl_ptr_idx' = 0
    /\ cl_ptr_arr' = [i \in 0..(ctx.nr_of_cachelines - 1) |-> NULL]
    /\ cnt_lines_per_set' = [s \in 0..(ctx.sets - 1) |-> 0]
    /\ pc' = IF can_trans_phys_addrs(priv) THEN "priv_loop" ELSE "unpriv_loop"
    /\ UNCHANGED <<envVars, heapVars, rejected, cl_candidates, unprivVars, callerVars>>

\* seeded fault: the accepting loop without cnt_lines_per_set[...] += 1
RECURSIVE priv_accept_loop_no_count(_, _, _, _, _, _)
priv_accept_loop_no_count(st, c, fr, pv, page, i) ==
    IF i >= CACHE_GROUP_SIZE THEN st
    ELSE priv_accept_loop_no_count(
             [mem |-> [st.mem EXCEPT ![page + i * CACHELINE_SIZE].cache_set =
                          get_phys_cache_set(c, fr, pv, page + i * CACHELINE_SIZE)],
              arr |-> [st.arr EXCEPT ![st.idx] = page + i * CACHELINE_SIZE],
              idx |-> st.idx + 1,
              cnt |-> st.cnt],
             c, fr, pv, page, i + 1)

\* the for loop that accepts the CACHE_GROUP_SIZE lines of a page
RECURSIVE priv_accept_loop(_, _, _, _, _, _)
priv_accept_loop(st, c, fr, pv, page, i) ==
    IF i >= CACHE_GROUP_SIZE THEN st
    ELSE LET cl == page + i * CACHELINE_SIZE
             cs == get_phys_cache_set(c, fr, pv, cl)
         IN  priv_accept_loop(
                 [mem |-> [st.mem EXCEPT ![cl].cache_set = cs],
                  arr |-> [st.arr EXCEPT ![st.idx] = cl],
                  idx |-> st.idx + 1,
                  cnt |-> [st.cnt EXCEPT ![cs] = @ + 1]],
                 c, fr, pv, page, i + 1)

\* seeded fault: the test that looks at no counter
priv_page_fits_always(c, cnt, fr, pv, page) == TRUE

\* the test of the page: the counter of the set of its first line
priv_page_fits(c, cnt, fr, pv, page) ==
    cnt[get_phys_cache_set(c, fr, pv, page)] < c.associativity

\* one iteration of the while loop of allocate_cache_ds_phys_priv
PrivPage ==
    /\ pc = "priv_loop"
    /\ cl_ptr_idx < ctx.nr_of_cachelines
    /\ \E pfn \in FreshFrames(ctx, frame) :
         LET page == brk * PAGE_SIZE
             fr == FrameSet(frame, page, pfn)
             m0 == MemAlloc(mem, ZeroPage(page))
         IN  /\ heap' = HeapAlloc(heap, page, PAGE_SIZE)
             /\ frame' = fr
             /\ brk' = brk + 1
             /\ cl_candidates' = page
             /\ IF priv_page_fits(ctx, cnt_lines_per_set, fr, priv, page)
                THEN LET st == priv_accept_loop(
                                   [mem |-> m0, arr |-> cl_ptr_arr, idx |-> cl_ptr_idx,
                                    cnt |-> cnt_lines_per_set],
                                   ctx, fr, priv, page, 0)
                     IN  /\ mem' = st.mem
                         /\ cl_ptr_arr' = st.arr
                         /\ cl_ptr_idx' = st.idx
                         /\ cnt_lines_per_set' = st.cnt
                         /\ UNCHANGED <<cls_to_del, rejected>>
                ELSE /\ rejected < MaxRejected
                     /\ mem' = [m0 EXCEPT ![page].prev = cls_to_del]
                     /\ cls_to_del' = page
                     /\ rejected' = rejected + 1
                     /\ UNCHANGED <<cl_ptr_arr, cl_ptr_idx, cnt_lines_per_set>>
    /\ UNCHANGED <<pc, envVars, wild, unprivVars, callerVars>>

\* ------------------------------------------------------ has_collision
\* The lines prime_rev and probe_full_ds read: prev from head until the walk
\* is at head again.
RECURSIVE probe_full_ds_loop(_, _, _, _, _)
probe_full_ds_loop(m, head, curr_cl, lines, fuel) ==
    IF curr_cl \notin DOMAIN m
    THEN [terminates |-> FALSE, fault |-> TRUE, lines |-> lines]
    ELSE IF m[curr_cl].prev = head
    THEN [terminates |-> TRUE, fault |-> FALSE, lines |-> lines \cup {curr_cl}]
    ELSE IF fuel = 0
    THEN [terminates |-> FALSE, fault |-> FALSE, lines |-> lines \cup {curr_cl}]
    ELSE probe_full_ds_loop(m, head, m[curr_cl].prev, lines \cup {curr_cl}, fuel - 1)

probe_full_ds(m, head) ==
    probe_full_ds_loop(m, head, head, {}, Cardinality(DOMAIN m))

\* The lines of a walk that the cache cannot hold: those whose physical set
\* is shared by more than `associativity` lines of the walk.
misses(c, fr, lines) ==
    LET set_of == [a \in lines |-> get_phys_cache_set(c, fr, TRUE, a)]
    IN  Cardinality({a \in DOMAIN set_of :
            Cardinality({b \in DOMAIN set_of : set_of[b] = set_of[a]})
                > c.associativity})

\* get_avg(time) >= baseline_time + L3_ACCESS_TIME - L2_ACCESS_TIME.  With
\* timing "exact" the clock shows one more miss and nothing else; "slow"
\* and "fast" are the two answers a disturbed clock gives.
slower(c, fr, timing, baseline_lines, lines) ==
    IF timing = "exact" THEN misses(c, fr, lines) > misses(c, fr, baseline_lines)
    ELSE timing = "slow"

\* seeded fault: the pass without cl_replace(cl_head, cl_candidate)
rotation_result_no_restore(m1, baseline, test, c, fr, timing, cl_candidate, cl_head) ==
    [mem    |-> m1,
     hit    |-> slower(c, fr, timing, baseline.lines, test.lines),
     status |-> IF baseline.fault \/ test.fault THEN "crashed"
                ELSE IF ~baseline.terminates \/ ~test.terminates THEN "hung"
                ELSE "ok"]

\* One pass of the do-while loop of has_collision at cl_head: the timed
\* walks of the baseline, cl_replace(cl_candidate, cl_head), the timed walks
\* of the test, cl_replace(cl_head, cl_candidate).  status is "ok", "hung"
\* (a walk that never ends) or "crashed" (a dereference of no line).
rotation_result(m1, baseline, test, c, fr, timing, cl_candidate, cl_head) ==
    [mem    |-> cl_replace(m1, cl_head, cl_candidate),
     hit    |-> slower(c, fr, timing, baseline.lines, test.lines),
     status |-> IF baseline.fault \/ test.fault THEN "crashed"
                ELSE IF ~baseline.terminates \/ ~test.terminates THEN "hung"
                ELSE "ok"]

rotation_test(m1, baseline, c, fr, timing, cl_candidate, cl_head) ==
    rotation_result(m1, baseline, probe_full_ds(m1, cl_candidate),
                    c, fr, timing, cl_candidate, cl_head)

rotation(m, c, fr, timing, cl_candidate, cl_head) ==
    IF \/ cl_head \notin DOMAIN m
       \/ m[cl_head].next \notin DOMAIN m
       \/ m[cl_head].prev \notin DOMAIN m
    THEN [mem |-> m, hit |-> FALSE, status |-> "crashed"]
    ELSE rotation_test(cl_replace(m, cl_candidate, cl_head), probe_full_ds(m, cl_head),
                       c, fr, timing, cl_candidate, cl_head)

RECURSIVE has_collision_loop(_, _, _, _, _, _, _, _, _, _)
\* r: the pass at cl_head; then cl_head = cl_head->next and the loop test.
\* heads: the values of cl_head of the passes so far, this one included
has_collision_next(r, collisions_overall, c, fr, timing, cl_candidate, cache_set_ds, cl_head, fuel, heads) ==
    IF r.status # "ok"
    THEN [mem |-> r.mem, collisions_overall |-> collisions_overall, status |-> r.status, heads |-> heads]
    ELSE IF r.mem[cl_head].next = cache_set_ds
    THEN [mem |-> r.mem, status |-> "ok", heads |-> heads,
          collisions_overall |-> collisions_overall + (IF r.hit THEN 1 ELSE 0)]
    ELSE IF fuel = 0
    THEN [mem |-> r.mem, collisions_overall |-> collisions_overall, status |-> "hung", heads |-> heads]
    ELSE has_collision_loop(r.mem, collisions_overall + (IF r.hit THEN 1 ELSE 0),
                            c, fr, timing, cl_candidate, cache_set_ds,
                            r.mem[cl_head].next, fuel - 1, heads)

has_collision_loop(m, collisions_overall, c, fr, timing, cl_candidate, cache_set_ds, cl_head, fuel, heads) ==
    has_collision_next(rotation(m, c, fr, timing, cl_candidate, cl_head),
                       collisions_overall, c, fr, timing, cl_candidate, cache_set_ds,
                       cl_head, fuel, Append(heads, cl_head))

\* seeded fault: collisions_overall >= cache_set_ds_len - associativity + 1
has_collision_ret_plus_one(r, c, cache_set_ds_len) ==
    [mem    |-> r.mem,
     status |-> r.status,
     heads  |-> r.heads,
     ret    |-> IF cache_set_ds_len + 1 >= c.associativity
                THEN r.collisions_overall >= cache_set_ds_len + 1 - c.associativity
                ELSE FALSE]

\* collisions_overall >= cache_set_ds_len - associativity in uint32_t: when
\* the length is below the associativity the difference wraps around to a
\* value above every count.
has_collision_ret(r, c, cache_set_ds_len) ==
    [mem    |-> r.mem,
     status |-> r.status,
     heads  |-> r.heads,
     ret    |-> IF cache_set_ds_len >= c.associativity
                THEN r.collisions_overall >= cache_set_ds_len - c.associativity
                ELSE FALSE]

has_collision(m, c, fr, timing, cl_candidate, cache_set_ds, cache_set_ds_len) ==
    has_collision_ret(
        has_collision_loop(m, 0, c, fr, timing, cl_candidate, cache_set_ds, cache_set_ds,
                           Cardinality(DOMAIN m), <<>>),
        c, cache_set_ds_len)

\* the answer of the clock in one call of has_collision
Timing(orc, noise) == IF orc = "exact" THEN "exact" ELSE IF noise THEN "slow" ELSE "fast"

\* ---------------------------------------------------- find_collisions
\* st = [mem, collisions, status]; noise[i]: the clock in the call for line i
RECURSIVE find_collisions_loop(_, _, _, _, _, _, _, _, _)
find_collisions_count(collisions, h, c, fr, orc, noise, page, ptrs, lens, i) ==
    find_collisions_loop([mem        |-> h.mem,
                          collisions |-> collisions + (IF h.ret THEN 1 ELSE 0),
                          status     |-> h.status],
                         c, fr, orc, noise, page, ptrs, lens, i + 1)

find_collisions_line(m1, collisions, c, fr, orc, noise, page, ptrs, lens, i, cl_candidate, cl_candidate_set) ==
    IF lens[cl_candidate_set] > c.associativity
    THEN find_collisions_count(collisions,
             has_collision(m1, c, fr, Timing(orc, noise[i]), cl_candidate,
                           ptrs[cl_candidate_set], lens[cl_candidate_set]),
             c, fr, orc, noise, page, ptrs, lens, i)
    ELSE find_collisions_loop([mem |-> m1, collisions |-> collisions, status |-> "ok"],
                              c, fr, orc, noise, page, ptrs, lens, i + 1)

find_collisions_set(st, c, fr, orc, noise, page, ptrs, lens, i, cl_candidate, cl_candidate_set) ==
    find_collisions_line([st.mem EXCEPT ![cl_candidate].cache_set = cl_candidate_set],
                         st.collisions, c, fr, orc, noise, page, ptrs, lens, i,
                         cl_candidate, cl_candidate_set)

find_collisions_loop(st, c, fr, orc, noise, page, ptrs, lens, i) ==
    IF i >= CACHE_GROUP_SIZE \/ st.status # "ok" THEN st
    ELSE find_collisions_set(st, c, fr, orc, noise, page, ptrs, lens, i,
             page + i * CACHELINE_SIZE,
             get_virt_cache_set(c, page + i * CACHELINE_SIZE) % CACHE_GROUP_SIZE)

find_collisions(m, c, fr, orc, noise, page, ptrs, lens) ==
    find_collisions_loop([mem |-> m, collisions |-> 0, status |-> "ok"],
                         c, fr, orc, noise, page, ptrs, lens, 0)

\* -------------------------------------------------- identify_cache_sets
\* st = [mem, identified_cls, identified_cls_idx, status]; j counts the
\* iterations of the do-while loop, noise[j] is the clock in its call
RECURSIVE identify_loop(_, _, _, _, _, _, _, _, _, _, _, _)
\* curr_cl = curr_cl->next; head_cl = cache_set_ds; and the loop test
identify_next(st, c, fr, orc, noise, coll_cl, cache_set_ds, cache_set_ds_len, curr_cl, j, fuel) ==
    IF st.mem[curr_cl].next = cache_set_ds THEN st
    ELSE IF st.mem[curr_cl].next \notin DOMAIN st.mem THEN [st EXCEPT !.status = "crashed"]
    ELSE IF fuel = 0 THEN [st EXCEPT !.status = "hung"]
    ELSE identify_loop(st, c, fr, orc, noise, coll_cl, cache_set_ds, cache_set_ds_len,
                       st.mem[curr_cl].next, cache_set_ds, j + 1, fuel - 1)

\* h: what has_collision returned; then cl_replace(curr_cl, coll_cl)
identify_found(st, h, c, fr, orc, noise, coll_cl, cache_set_ds, cache_set_ds_len, curr_cl, j, fuel) ==
    IF h.status # "ok" THEN [st EXCEPT !.mem = h.mem, !.status = h.status]
    ELSE identify_next(
             [mem |-> cl_replace(h.mem, curr_cl, coll_cl),
              identified_cls |->
                  IF h.ret /\ st.identified_cls_idx < c.associativity
                  THEN Append(st.identified_cls, remove_cache_group_set(curr_cl))
                  ELSE st.identified_cls,
              identified_cls_idx |-> st.identified_cls_idx + (IF h.ret THEN 1 ELSE 0),
              status |-> "ok"],
             c, fr, orc, noise, coll_cl, cache_set_ds, cache_set_ds_len, curr_cl, j, fuel)

identify_loop(st, c, fr, orc, noise, coll_cl, cache_set_ds, cache_set_ds_len, curr_cl, head_cl, j, fuel) ==
    IF IS_CACHE_GROUP_INIT(st.mem[curr_cl].flags) = 1
    THEN identify_next(st, c, fr, orc, noise, coll_cl, cache_set_ds, cache_set_ds_len,
                       curr_cl, j, fuel)
    ELSE IF \/ st.mem[curr_cl].next \notin DOMAIN st.mem
            \/ st.mem[curr_cl].prev \notin DOMAIN st.mem
    THEN [st EXCEPT !.status = "crashed"]
    ELSE identify_found(st,
             has_collision(cl_replace(st.mem, coll_cl, curr_cl), c, fr,
                           Timing(orc, noise[j]), curr_cl, head_cl, cache_set_ds_len),
             c, fr, orc, noise, coll_cl, cache_set_ds, cache_set_ds_len, curr_cl, j, fuel)

\* "Mark all cachelines in the page of the collision"
mark_line(m, cl, cache_set) ==
    [m EXCEPT ![cl].cache_set = cache_set, ![cl].flags = SET_CACHE_GROUP_INIT(m[cl].flags)]

\* seeded fault: only the colliding line of the first page is marked
mark_loop_one_line(m, c, identified_cls, grp, i, j) ==
    mark_line(m, identified_cls[1], grp * CACHE_GROUP_SIZE)

RECURSIVE mark_loop(_, _, _, _, _, _)
mark_loop(m, c, identified_cls, grp, i, j) ==
    IF i > Len(identified_cls) THEN m
    ELSE IF j >= CACHE_GROUP_SIZE THEN mark_loop(m, c, identified_cls, grp, i + 1, 0)
    ELSE mark_loop(
             mark_line(m, identified_cls[i] + j * CACHELINE_SIZE,
                 grp * CACHE_GROUP_SIZE
                 + (get_virt_cache_set(c, identified_cls[i] + j * CACHELINE_SIZE)
                    % CACHE_GROUP_SIZE)),
             c, identified_cls, grp, i, j + 1)

\* r: the state after the do-while loop; returns [mem, cache_group, status]
identify_mark(r, c, grp) ==
    IF r.status = "ok" /\ r.identified_cls_idx = c.associativity
    THEN [mem |-> mark_loop(r.mem, c, r.identified_cls, grp, 1, 0),
          cache_group |-> grp + 1, status |-> "ok"]
    ELSE [mem |-> r.mem, cache_group |-> grp, status |-> r.status]

identify_cache_sets(m, c, fr, orc, noise, coll_cl, cache_set_ds, cache_set_ds_len, grp) ==
    IF cache_set_ds \notin DOMAIN m
    THEN [mem |-> m, cache_group |-> grp, status |-> "crashed"]
    ELSE identify_mark(
             identify_loop([mem |-> m, identified_cls |-> <<>>,
                            identified_cls_idx |-> 0, status |-> "ok"],
                           c, fr, orc, noise, coll_cl, cache_set_ds, cache_set_ds_len,
                           cache_set_ds, coll_cl, 1, Cardinality(DOMAIN m)),
             c, grp)

\* ---------------------------------------- allocate_cache_ds_phys_unpriv
\* The answers of the clock in the calls of has_collision one page causes:
\* find_collisions calls it for the lines whose candidate ring is longer than
\* the associativity, identify_cache_sets at most once per line of the ring.
NoiseFind(c, orc, lens) ==
    LET called == {i \in 0..(CACHE_GROUP_SIZE - 1) : lens[i] > c.associativity}
    IN  IF orc = "noisy"
        THEN {[i \in 0..(CACHE_GROUP_SIZE - 1) |-> i \in S] : S \in SUBSET called}
        ELSE {[i \in 0..(CACHE_GROUP_SIZE - 1) |-> FALSE]}

NoiseIdent(orc, len) ==
    IF orc = "noisy" THEN [1..len -> BOOLEAN] ELSE {[j \in 1..len |-> FALSE]}

\* "Add all cache lines in the block to the data structure":
\* st = [mem, arr, idx, ptrs, lens]
RECURSIVE unpriv_accept_loop(_, _, _)
unpriv_accept_loop(st, page, i) ==
    IF i >= CACHE_GROUP_SIZE THEN st
    ELSE LET cl_candidate     == page + i * CACHELINE_SIZE
             cl_candidate_set == st.mem[cl_candidate].cache_set % CACHE_GROUP_SIZE
             ptrs == IF st.ptrs[cl_candidate_set] = NULL
                     THEN [st.ptrs EXCEPT ![cl_candidate_set] = cl_candidate]
                     ELSE st.ptrs
         IN  unpriv_accept_loop(
                 [mem  |-> cl_insert(st.mem, st.mem[ptrs[cl_candidate_set]].prev,
                                     cl_candidate),
                  arr  |-> [st.arr EXCEPT ![st.idx] = cl_candidate],
                  idx  |-> st.idx + 1,
                  ptrs |-> ptrs,
                  lens |-> [st.lens EXCEPT ![cl_candidate_set] = @ + 1]],
                 page, i + 1)

\* allocate_cache_ds_phys, unprivileged branch: the locals of
\* allocate_cache_ds_phys_unpriv before its loop
AllocateUnpriv ==
    /\ pc = "unpriv_loop"
    /\ cache_set_ds_ptrs = <<>>
    /\ cache_set_ds_ptrs' = [s \in 0..(CACHE_GROUP_SIZE - 1) |-> NULL]
    /\ cache_set_ds_lens' = [s \in 0..(CACHE_GROUP_SIZE - 1) |-> 0]
    /\ cache_group' = 0
    /\ repeated_collisions' = 0
    /\ UNCHANGED <<pc, envVars, heapVars, allocVars, cnt_lines_per_set, callerVars>>

\* The page collided in every line: id is what identify_cache_sets returned,
\* then the page joins the chain of pages to free.
Collided(page, id) ==
    /\ pc' = IF id.status = "ok" THEN pc ELSE id.status
    /\ mem' = IF id.status = "ok" THEN [id.mem EXCEPT ![page].prev = cls_to_del]
                                  ELSE id.mem
    /\ cls_to_del' = IF id.status = "ok" THEN page ELSE cls_to_del
    /\ cache_group' = id.cache_group
    /\ rejected' = rejected + 1

\* acc: the state after the loop that adds the lines of the page
Accepted(acc) ==
    /\ mem' = acc.mem
    /\ cl_ptr_arr' = acc.arr
    /\ cl_ptr_idx' = acc.idx
    /\ cache_set_ds_ptrs' = acc.ptrs
    /\ cache_set_ds_lens' = acc.lens

\* f: what find_collisions returned for the page; rc: repeated_collisions
\* after the allocation
Decide(page, rc, fr, f, cl_candidate_set) ==
    IF f.status # "ok"
    THEN /\ pc' = f.status
         /\ mem' = f.mem
         /\ repeated_collisions' = rc
         /\ UNCHANGED <<cl_ptr_arr, cl_ptr_idx, cls_to_del, rejected,
                        cache_set_ds_ptrs, cache_set_ds_lens, cache_group>>
    ELSE IF f.collisions = CACHE_GROUP_SIZE
    THEN /\ rejected < MaxRejected
         /\ repeated_collisions' = rc + 1
         /\ \E ni \in NoiseIdent(oracle, cache_set_ds_lens[cl_candidate_set]) :
              Collided(page,
                  identify_cache_sets(f.mem, ctx, fr, oracle, ni, page,
                                      cache_set_ds_ptrs[cl_candidate_set],
                                      cache_set_ds_lens[cl_candidate_set], cache_group))
         /\ UNCHANGED <<cl_ptr_arr, cl_ptr_idx, cache_set_ds_ptrs, cache_set_ds_lens>>
    ELSE /\ repeated_collisions' = 0
         /\ Accepted(unpriv_accept_loop(
                [mem |-> f.mem, arr |-> cl_ptr_arr, idx |-> cl_ptr_idx,
                 ptrs |-> cache_set_ds_ptrs, lens |-> cache_set_ds_lens],
                page, 0))
         /\ UNCHANGED <<pc, cls_to_del, rejected, cache_group>>

\* fr: the frames after the allocation of the page
Tested(page, rc, fr, nf) ==
    Decide(page, rc, fr,
           find_collisions(MemAlloc(mem, ZeroPage(page)), ctx, fr, oracle, nf, page,
                           cache_set_ds_ptrs, cache_set_ds_lens),
           get_virt_cache_set(ctx, page) % CACHE_GROUP_SIZE)

\* seeded fault: the builder that never asks for two pages
double_alloc_never(rc) == FALSE

\* "if (repeated_collisions >= 3)": two pages are asked for and the counter
\* starts again
double_alloc(rc) == rc >= 3

\* one iteration of the while loop of allocate_cache_ds_phys_unpriv
UnprivPage ==
    /\ pc = "unpriv_loop"
    /\ cache_set_ds_ptrs # <<>>
    /\ cl_ptr_idx < ctx.nr_of_cachelines
    /\ heap' = HeapAlloc(heap, brk * PAGE_SIZE,
                         IF double_alloc(repeated_collisions) THEN 2 * PAGE_SIZE ELSE PAGE_SIZE)
    /\ brk' = brk + (IF double_alloc(repeated_collisions) THEN 2 ELSE 1)
    /\ cl_candidates' = brk * PAGE_SIZE
    /\ \E pfn \in UnprivFrames(ctx, frame, oracle),
          nf \in NoiseFind(ctx, oracle, cache_set_ds_lens) :
         /\ frame' = FrameSet(frame, brk * PAGE_SIZE, pfn)
         /\ Tested(brk * PAGE_SIZE,
                   IF double_alloc(repeated_collisions) THEN 0 ELSE repeated_collisions,
                   FrameSet(frame, brk * PAGE_SIZE, pfn), nf)
    /\ UNCHANGED <<envVars, wild, cnt_lines_per_set, callerVars>>

\* one iteration of the while loop of finish_identifying_groups
FinishIdentifyingGroups ==
    /\ pc = "unpriv_loop"
    /\ cache_set_ds_ptrs # <<>>
    /\ cl_ptr_idx >= ctx.nr_of_cachelines
    /\ cache_group < ctx.sets \div CACHE_GROUP_SIZE
    /\ rejected < MaxRejected
    /\ heap' = HeapAlloc(heap, brk * PAGE_SIZE, PAGE_SIZE)
    /\ brk' = brk + 1
    /\ cl_candidates' = brk * PAGE_SIZE
    /\ \E pfn \in UnprivFrames(ctx, frame, oracle),
          ni \in NoiseIdent(oracle, cache_set_ds_lens[
                     get_virt_cache_set(ctx, brk * PAGE_SIZE) % CACHE_GROUP_SIZE]) :
         /\ frame' = FrameSet(frame, brk * PAGE_SIZE, pfn)
         /\ Collided(brk * PAGE_SIZE,
                identify_cache_sets(MemAlloc(mem, ZeroPage(brk * PAGE_SIZE)), ctx,
                    FrameSet(frame, brk * PAGE_SIZE, pfn), oracle, ni, brk * PAGE_SIZE,
                    cache_set_ds_ptrs[get_virt_cache_set(ctx, brk * PAGE_SIZE)
                                      % CACHE_GROUP_SIZE],
                    CACHE_GROUP_SIZE, cache_group))
    /\ UNCHANGED <<envVars, wild, cl_ptr_arr, cl_ptr_idx, cnt_lines_per_set,
                   cache_set_ds_ptrs, cache_set_ds_lens, repeated_collisions, callerVars>>

\* the builder has returned: allocate_cache_ds_phys frees the rejected pages
FreeUnused ==
    /\ \/ pc = "priv_loop"
       \/ /\ pc = "unpriv_loop"
          /\ cache_set_ds_ptrs # <<>>
          /\ cache_group >= ctx.sets \div CACHE_GROUP_SIZE
    /\ cl_ptr_idx >= ctx.nr_of_cachelines
    /\ LET st == FreeAll([heap |-> heap, wild |-> wild, mem |-> mem],
                         ChainPtrs(mem, cls_to_del), 1)
       IN  /\ heap' = st.heap
           /\ wild' = st.wild
           /\ mem' = st.mem
           /\ frame' = [b \in DOMAIN frame \cap Live(st.heap) |-> frame[b]]
    /\ pc' = "allocated"
    \* the locals of the builder are gone
    /\ cls_to_del' = NULL
    /\ cl_candidates' = NULL
    /\ rejected' = 0
    /\ cnt_lines_per_set' = <<>>
    /\ cache_set_ds_ptrs' = <<>>
    /\ cache_set_ds_lens' = <<>>
    /\ cache_group' = 0
    /\ repeated_collisions' = 0
    /\ UNCHANGED <<envVars, brk, cl_ptr_arr, cl_ptr_idx, callerVars>>

\* ---------------------------------------------------- prepare_cache_ds
\* build_cache_ds with the index maps the random generator yields, then the
\* assert on the sanity check, then the return of the entry line.  b: what
\* build_cache_ds did; a faulting build ends in a crash or, with the memory
\* it damaged, in the assert.
Built(b) ==
    IF b.fault
    THEN /\ pc' \in {"crashed", "assert_failed"}
         /\ UNCHANGED <<mem, cache_ds>>
    ELSE /\ mem' = b.mem
         /\ cache_ds' = b.cache_ds
         /\ pc' = IF cache_ds_sanity_check(b.mem, ctx, b.cache_ds)
                       = [terminates |-> TRUE, fault |-> FALSE, ret |-> 0]
                  THEN "built" ELSE "assert_failed"

Build ==
    /\ pc = "allocated"
    /\ \E line_idx_maps \in [0..(ctx.sets - 1) -> PermOutcomes(ctx.associativity)],
          idx_map \in PermOutcomes(ctx.sets) :
         Built(build_cache_ds(mem, ctx, cl_ptr_arr, line_idx_maps, idx_map))
    \* free(cl_ptr_arr)
    /\ cl_ptr_arr' = <<>>
    /\ cl_ptr_idx' = 0
    /\ UNCHANGED <<envVars, heap, wild, frame, brk, cls_to_del, rejected, cl_candidates,
                   cnt_lines_per_set, unprivVars, req, walk, removed, ptrs_to_free_idx>>

\* ------------------------------------------------------ release_cache_ds
is_in_arr(elem, arr) == \E i \in 1..Len(arr) : arr[i] = elem

\* seeded fault: the collecting loop without the search for a page base
\* that is already stored
RECURSIVE release_collect_loop_no_dedup(_, _, _, _, _)
release_collect_loop_no_dedup(m, head, curr_cl, ptrs_to_free, fuel) ==
    IF curr_cl \notin DOMAIN m
    THEN [terminates |-> FALSE, fault |-> TRUE, ptrs |-> ptrs_to_free]
    ELSE LET next_cl == m[curr_cl].next
             ptrs    == Append(ptrs_to_free, remove_cache_group_set(curr_cl))
         IN  IF next_cl = head
             THEN [terminates |-> TRUE, fault |-> FALSE, ptrs |-> ptrs]
             ELSE IF fuel = 0
             THEN [terminates |-> FALSE, fault |-> FALSE, ptrs |-> ptrs]
             ELSE release_collect_loop_no_dedup(m, head, next_cl, ptrs, fuel - 1)

\* PHYSICAL: the do-while loop that stores the page bases to free
RECURSIVE release_collect_loop(_, _, _, _, _)
release_collect_loop(m, head, curr_cl, ptrs_to_free, fuel) ==
    IF curr_cl \notin DOMAIN m
    THEN [terminates |-> FALSE, fault |-> TRUE, ptrs |-> ptrs_to_free]
    ELSE LET next_cl == m[curr_cl].next
             cl_base == remove_cache_group_set(curr_cl)
             add_ptr == \A i \in 1..Len(ptrs_to_free) : ptrs_to_free[i] # cl_base
             ptrs    == IF add_ptr THEN Append(ptrs_to_free, cl_base) ELSE ptrs_to_free
         IN  IF next_cl = head
             THEN [terminates |-> TRUE, fault |-> FALSE, ptrs |-> ptrs]
             ELSE IF fuel = 0
             THEN [terminates |-> FALSE, fault |-> FALSE, ptrs |-> ptrs]
             ELSE release_collect_loop(m, head, next_cl, ptrs, fuel - 1)

\* st = [heap, wild, mem]; the result adds the pointers freed and whether
\* the call came back
release_cache_ds(c, st, head) ==
    IF head = NULL
    THEN [heap |-> st.heap, wild |-> st.wild, mem |-> st.mem, ptrs |-> <<>>, ok |-> TRUE]
    ELSE IF c.addressing = VIRTUAL
    THEN LET p == <<remove_cache_set(c, head)>>
             f == FreeAll(st, p, 1)
         IN  [heap |-> f.heap, wild |-> f.wild, mem |-> f.mem, ptrs |-> p, ok |-> TRUE]
    ELSE LET w == release_collect_loop(st.mem, head, head, <<>>, Cardinality(DOMAIN st.mem))
             f == FreeAll(st, w.ptrs, 1)
         IN  IF w.terminates
             THEN [heap |-> f.heap, wild |-> f.wild, mem |-> f.mem, ptrs |-> w.ptrs,
                   ok |-> TRUE]
             ELSE [heap |-> st.heap, wild |-> st.wild, mem |-> st.mem, ptrs |-> w.ptrs,
                   ok |-> FALSE]

release_cache_set_ds(c, st, cache_set_ds) ==
    IF c.addressing = VIRTUAL
    THEN LET p == <<remove_cache_set(c, cache_set_ds)>>
             f == FreeAll(st, p, 1)
         IN  [heap |-> f.heap, wild |-> f.wild, mem |-> f.mem, ptrs |-> p, ok |-> TRUE]
    ELSE release_cache_ds(c, st, cache_set_ds)

Max(a, b) == IF a >= b THEN a ELSE b

\* -------------------------------------------------- prepare_cache_set_ds
\* "Find the cache groups that are used"
RECURSIVE used_cache_groups(_, _, _)
used_cache_groups(sets, cache_groups, i) ==
    IF i > Len(sets) THEN cache_groups
    ELSE used_cache_groups(sets,
             IF is_in_arr(sets[i] \div CACHE_GROUP_SIZE, cache_groups)
             THEN cache_groups
             ELSE Append(cache_groups, sets[i] \div CACHE_GROUP_SIZE),
             i + 1)

\* "Extract the partial data structure": st = [mem, first, last, to_del]
RECURSIVE extract_loop(_, _, _, _, _, _)
extract_loop(st, c, head, cache_groups, curr_cl, fuel) ==
    LET next_cl == st.mem[curr_cl].next
        cs      == st.mem[curr_cl].cache_set
        fl      == st.mem[curr_cl].flags
        first   == IF IS_FIRST(fl) = 1 THEN [st.first EXCEPT ![cs] = curr_cl] ELSE st.first
        last    == IF IS_LAST(fl) = 1 THEN [st.last EXCEPT ![cs] = curr_cl] ELSE st.last
        del     == c.addressing = PHYSICAL
                   /\ ~is_in_arr(cs \div CACHE_GROUP_SIZE, cache_groups)
        st1     == [mem    |-> IF del THEN cl_insert(st.mem, st.to_del, curr_cl) ELSE st.mem,
                    first  |-> first,
                    last   |-> last,
                    to_del |-> IF del THEN curr_cl ELSE st.to_del]
    IN  IF next_cl = head \/ fuel = 0 THEN st1
        ELSE extract_loop(st1, c, head, cache_groups, next_cl, fuel - 1)

\* "Fix partial cache set ds"; sets is the caller's list, from 1
RECURSIVE fix_partial_loop(_, _, _, _, _)
fix_partial_loop(m, first, last, sets, i) ==
    IF i > Len(sets) THEN m
    ELSE LET l  == last[sets[i]]
             f  == first[sets[(i % Len(sets)) + 1]]
             m1 == [m EXCEPT ![l].next = f]
         IN  fix_partial_loop([m1 EXCEPT ![f].prev = l], first, last, sets, i + 1)

\* what prepare_cache_set_ds does with the structure prepare_cache_ds built;
\* crashed: it dereferences a NULL entry of first_cl_in_sets / last_cl_in_sets
prepare_cache_set_ds(c, st0, head, sets) ==
    LET cache_groups == used_cache_groups(sets, <<>>, 1)
        e == extract_loop([mem    |-> st0.mem,
                           first  |-> [s \in 0..(c.sets - 1) |-> NULL],
                           last   |-> [s \in 0..(c.sets - 1) |-> NULL],
                           to_del |-> NULL],
                          c, head, cache_groups, head, Cardinality(DOMAIN st0.mem))
        crashed == \E i \in 1..Len(sets) : e.first[sets[i]] = NULL \/ e.last[sets[i]] = NULL
        m1 == fix_partial_loop(e.mem, e.first, e.last, sets, 1)
        r  == IF c.addressing = PHYSICAL
              THEN release_cache_ds(c, [heap |-> st0.heap, wild |-> st0.wild, mem |-> m1],
                                    e.to_del)
              ELSE [heap |-> st0.heap, wild |-> st0.wild, mem |-> m1, ptrs |-> <<>>,
                    ok |-> TRUE]
    IN  IF crashed
        THEN [crashed |-> TRUE, heap |-> st0.heap, wild |-> st0.wild, mem |-> e.mem,
              ptrs |-> <<>>, cache_set_ds |-> NULL]
        ELSE [crashed |-> ~r.ok, heap |-> r.heap, wild |-> r.wild, mem |-> r.mem,
              ptrs |-> r.ptrs, cache_set_ds |-> e.first[sets[1]]]

\* ------------------------------------------------------- prepare_victim
\* st = [heap, wild, mem]
release_victim(c, st, victim_cl) ==
    IF c.addressing = VIRTUAL
    THEN FreeAll(st, <<remove_cache_set(c, victim_cl)>>, 1)
    ELSE FreeAll(st, <<remove_cache_group_set(victim_cl)>>, 1)

\* PHYSICAL: the do-while loop that frees the pages of the other lines of the
\* set; reading through a line of a freed page is a crash
RECURSIVE victim_free_loop(_, _, _, _)
victim_free_loop(st, victim_cl, curr_cl, fuel) ==
    IF curr_cl \notin DOMAIN st.mem
    THEN [crashed |-> TRUE, heap |-> st.heap, wild |-> st.wild, mem |-> st.mem]
    ELSE IF st.mem[curr_cl].next = victim_cl \/ fuel = 0
    THEN [crashed |-> st.mem[curr_cl].next # victim_cl]
         @@ FreeAll(st, <<remove_cache_group_set(curr_cl)>>, 1)
    ELSE victim_free_loop(FreeAll(st, <<remove_cache_group_set(curr_cl)>>, 1),
                          victim_cl, st.mem[curr_cl].next, fuel - 1)

victim_free_others(st, victim_cl, curr_cl, fuel) ==
    victim_free_loop(st, victim_cl, curr_cl, fuel)

\* r: what prepare_cache_set_ds(ctx, &target_set, 1) returned
prepare_victim_rest(c, r) ==
    IF r.crashed \/ r.cache_set_ds \notin DOMAIN r.mem
    THEN [crashed |-> TRUE, heap |-> r.heap, wild |-> r.wild, mem |-> r.mem,
          victim_cl |-> NULL]
    ELSE IF c.addressing = PHYSICAL
    THEN [victim_cl |-> r.cache_set_ds]
         @@ victim_free_others([heap |-> r.heap, wild |-> r.wild, mem |-> r.mem],
                               r.cache_set_ds, r.mem[r.cache_set_ds].next,
                               Cardinality(DOMAIN r.mem))
    ELSE [crashed |-> FALSE, heap |-> r.heap, wild |-> r.wild, mem |-> r.mem,
          victim_cl |-> r.cache_set_ds]

prepare_victim(c, st0, head, target_set) ==
    prepare_victim_rest(c, prepare_cache_set_ds(c, st0, head, <<target_set>>))

\* one call at a time; a state with a finished walk is where the caller stops
CallerIdle == walk = NoWalk

PrepareCacheSetDs ==
    /\ pc = "built"
    /\ CallerIdle
    /\ \E sets \in SetLists(ctx) :
         LET r == prepare_cache_set_ds(ctx, [heap |-> heap, wild |-> wild, mem |-> mem],
                                       cache_ds, sets)
         IN  /\ req' = sets
             /\ mem' = r.mem
             /\ heap' = r.heap
             /\ wild' = r.wild
             /\ frame' = [b \in DOMAIN frame \cap Live(r.heap) |-> frame[b]]
             /\ cache_ds' = r.cache_set_ds
             /\ ptrs_to_free_idx' = Max(ptrs_to_free_idx, Len(r.ptrs))
             /\ pc' = IF r.crashed THEN "crashed" ELSE "set_built"
    /\ UNCHANGED <<envVars, brk, allocVars, cnt_lines_per_set, unprivVars, walk, removed>>

\* ------------------------------------------------------- the caller
ReleaseCacheDs ==
    /\ pc = "built"
    /\ CallerIdle
    /\ LET r == release_cache_ds(ctx, [heap |-> heap, wild |-> wild, mem |-> mem], cache_ds)
       IN  /\ mem' = r.mem
           /\ heap' = r.heap
           /\ wild' = r.wild
           /\ frame' = [b \in DOMAIN frame \cap Live(r.heap) |-> frame[b]]
           /\ ptrs_to_free_idx' = Max(ptrs_to_free_idx, Len(r.ptrs))
           /\ pc' = IF r.ok THEN "released" ELSE "crashed"
    /\ UNCHANGED <<envVars, brk, allocVars, cnt_lines_per_set, unprivVars, req, cache_ds,
                   walk, removed>>

ReleaseCacheSetDs ==
    /\ pc = "set_built"
    /\ CallerIdle
    /\ LET r == release_cache_set_ds(ctx, [heap |-> heap, wild |-> wild, mem |-> mem],
                                     cache_ds)
       IN  /\ mem' = r.mem
           /\ heap' = r.heap
           /\ wild' = r.wild
           /\ frame' = [b \in DOMAIN frame \cap Live(r.heap) |-> frame[b]]
           /\ ptrs_to_free_idx' = Max(ptrs_to_free_idx, Len(r.ptrs))
           /\ pc' = IF r.ok THEN "released" ELSE "crashed"
    /\ UNCHANGED <<envVars, brk, allocVars, cnt_lines_per_set, unprivVars, req, cache_ds,
                   walk, removed>>

\* prepare_victim(ctx, target_set), from the structure its prepare_cache_ds built
PrepareVictim ==
    /\ pc = "built"
    /\ CallerIdle
    /\ \E target_set \in 0..(ctx.sets - 1) :
         LET r == prepare_victim(ctx, [heap |-> heap, wild |-> wild, mem |-> mem],
                                 cache_ds, target_set)
         IN  /\ req' = <<target_set>>
             /\ mem' = r.mem
             /\ heap' = r.heap
             /\ wild' = r.wild
             /\ frame' = [b \in DOMAIN frame \cap Live(r.heap) |-> frame[b]]
             /\ cache_ds' = r.victim_cl
             /\ pc' = IF r.crashed THEN "victim_crashed" ELSE "victim_built"
    /\ UNCHANGED <<envVars, brk, allocVars, cnt_lines_per_set, unprivVars, walk, removed,
                   ptrs_to_free_idx>>

ReleaseVictim ==
    /\ pc = "victim_built"
    /\ LET r == release_victim(ctx, [heap |-> heap, wild |-> wild, mem |-> mem], cache_ds)
       IN  /\ mem' = r.mem
           /\ heap' = r.heap
           /\ wild' = r.wild
           /\ frame' = [b \in DOMAIN frame \cap Live(r.heap) |-> frame[b]]
    /\ pc' = "victim_released"
    /\ UNCHANGED <<envVars, brk, allocVars, cnt_lines_per_set, unprivVars, req, cache_ds,
                   walk, removed, ptrs_to_free_idx>>

\* the lines a walk along next reaches from head
RECURSIVE Reach(_, _, _)
Reach(m, frontier, seen) ==
    IF frontier = NULL \/ frontier \notin DOMAIN m \/ frontier \in seen THEN seen
    ELSE Reach(m, m[frontier].next, seen \cup {frontier})

Ring(m, head) == Reach(m, head, {})

\* a caller unlinks one line of the structure it was handed
ClRemove ==
    /\ pc = "built"
    /\ CallerIdle
    /\ \E cl \in Ring(mem, cache_ds) :
         /\ mem' = cl_remove(mem, cl)
         /\ removed' = cl
    /\ pc' = "unlinked"
    /\ UNCHANGED <<envVars, heap, wild, frame, brk, allocVars, cnt_lines_per_set,
                   unprivVars, req, cache_ds, walk, ptrs_to_free_idx>>

\* prime / prime_rev.  w = [curr_cl, steps, visited]: visited lists the
\* lines whose link the do-while loop has read, in order; the loop is cut
\* off when it has taken more steps than there are lines.
RECURSIVE prime_loop(_, _, _, _)
prime_loop(m, head, w, fuel) ==
    LET curr_cl == m[w.curr_cl].next
        w1 == [curr_cl |-> curr_cl, steps |-> w.steps + 1,
               visited |-> Append(w.visited, w.curr_cl)]
    IN  IF curr_cl = head THEN [terminates |-> TRUE] @@ w1
        ELSE IF fuel = 0 \/ curr_cl \notin DOMAIN m THEN [terminates |-> FALSE] @@ w1
        ELSE prime_loop(m, head, w1, fuel - 1)

\* seeded fault: prime that returns curr_cl instead of curr_cl->prev
prime_ret_head(m, head) ==
    LET w == prime_loop(m, head, [curr_cl |-> head, steps |-> 0, visited |-> <<>>],
                        Cardinality(DOMAIN m))
    IN  [fn |-> "prime", head |-> head, terminates |-> w.terminates, steps |-> w.steps,
         visited |-> w.visited,
         ret |-> IF w.terminates THEN w.curr_cl ELSE NULL]

prime(m, head) ==
    LET w == prime_loop(m, head, [curr_cl |-> head, steps |-> 0, visited |-> <<>>],
                        Cardinality(DOMAIN m))
    IN  [fn |-> "prime", head |-> head, terminates |-> w.terminates, steps |-> w.steps,
         visited |-> w.visited,
         ret |-> IF w.terminates THEN m[w.curr_cl].prev ELSE NULL]

RECURSIVE prime_rev_loop(_, _, _, _)
prime_rev_loop(m, head, w, fuel) ==
    LET curr_cl == m[w.curr_cl].prev
        w1 == [curr_cl |-> curr_cl, steps |-> w.steps + 1,
               visited |-> Append(w.visited, w.curr_cl)]
    IN  IF curr_cl = head THEN [terminates |-> TRUE] @@ w1
        ELSE IF fuel = 0 \/ curr_cl \notin DOMAIN m THEN [terminates |-> FALSE] @@ w1
        ELSE prime_rev_loop(m, head, w1, fuel - 1)

\* seeded fault: prime_rev that returns curr_cl->next
prime_rev_ret_next(m, head) ==
    LET w == prime_rev_loop(m, head, [curr_cl |-> head, steps |-> 0, visited |-> <<>>],
                            Cardinality(DOMAIN m))
    IN  [fn |-> "prime_rev", head |-> head, terminates |-> w.terminates,
         steps |-> w.steps, visited |-> w.visited,
         ret |-> IF w.terminates THEN m[w.curr_cl].next ELSE NULL]

prime_rev(m, head) ==
    LET w == prime_rev_loop(m, head, [curr_cl |-> head, steps |-> 0, visited |-> <<>>],
                            Cardinality(DOMAIN m))
    IN  [fn |-> "prime_rev", head |-> head, terminates |-> w.terminates,
         steps |-> w.steps, visited |-> w.visited,
         ret |-> IF w.terminates THEN m[w.curr_cl].prev ELSE NULL]

\* the caller primes the structure from one of its lines
Prime ==
    /\ pc = "built"
    /\ CallerIdle
    /\ \E head \in Ring(mem, cache_ds) : walk' = prime(mem, head)
    /\ UNCHANGED <<pc, envVars, heapVars, allocVars, cnt_lines_per_set, unprivVars,
                   req, cache_ds, removed, ptrs_to_free_idx>>

PrimeRev ==
    /\ pc = "built"
    /\ CallerIdle
    /\ \E head \in Ring(mem, cache_ds) : walk' = prime_rev(mem, head)
    /\ UNCHANGED <<pc, envVars, heapVars, allocVars, cnt_lines_per_set, unprivVars,
                   req, cache_ds, removed, ptrs_to_free_idx>>

\* ------------------------------------------- get_msrmts_for_all_set
\* seeded fault: the measurement of the LAST line of a set is taken
RECURSIVE get_msrmts_loop_last(_, _, _, _, _)
get_msrmts_loop_last(m, head, curr_cl, res, fuel) ==
    IF curr_cl \notin DOMAIN m \/ m[curr_cl].cache_set \notin DOMAIN res
    THEN [terminates |-> FALSE, fault |-> TRUE, res |-> res]
    ELSE IF m[curr_cl].prev = head \/ fuel = 0
    THEN [terminates |-> m[curr_cl].prev = head, fault |-> FALSE,
          res |-> IF IS_LAST(m[curr_cl].flags) = 1 THEN [res EXCEPT ![m[curr_cl].cache_set] = m[curr_cl].time_msrmt] ELSE res]
    ELSE get_msrmts_loop_last(m, head, m[curr_cl].prev,
          IF IS_LAST(m[curr_cl].flags) = 1 THEN [res EXCEPT ![m[curr_cl].cache_set] = m[curr_cl].time_msrmt] ELSE res, fuel - 1)

\* the do-while along prev: res after the walk, whether the walk came back to
\* head, and whether it read outside the lines or wrote outside res
RECURSIVE get_msrmts_loop(_, _, _, _, _)
get_msrmts_loop(m, head, curr_cl, res, fuel) ==
    IF curr_cl \notin DOMAIN m
    THEN [terminates |-> FALSE, fault |-> TRUE, res |-> res]
    ELSE IF IS_FIRST(m[curr_cl].flags) = 1 /\ m[curr_cl].cache_set \notin DOMAIN res
    THEN [terminates |-> FALSE, fault |-> TRUE, res |-> res]
    ELSE IF m[curr_cl].prev = head \/ fuel = 0
    THEN [terminates |-> m[curr_cl].prev = head, fault |-> FALSE,
          res |-> IF IS_FIRST(m[curr_cl].flags) = 1 THEN [res EXCEPT ![m[curr_cl].cache_set] = m[curr_cl].time_msrmt] ELSE res]
    ELSE get_msrmts_loop(m, head, m[curr_cl].prev,
          IF IS_FIRST(m[curr_cl].flags) = 1 THEN [res EXCEPT ![m[curr_cl].cache_set] = m[curr_cl].time_msrmt] ELSE res, fuel - 1)

get_msrmts_for_all_set(m, head, res) ==
    get_msrmts_loop(m, head, head, res, Cardinality(DOMAIN m))

\* what a probe leaves in time_msrmt: MISS_TIME in the line that was
\* evicted, HIT_TIME in the others
Measured(m, slow) ==
    [a \in DOMAIN m |-> [m[a] EXCEPT !.time_msrmt = IF a = slow THEN MISS_TIME ELSE HIT_TIME]]

\* the caller's array before the call, one entry per set of the cache; its
\* entries hold a value no measurement has
CallerRes(c) == [s2 \in 0..(c.sets - 1) |-> 0]

\* a caller probes the structure it holds and collects the measurements; the
\* line the victim evicted is the entry line or the one after it
GetMsrmtsForAllSet ==
    /\ pc \in {"built", "set_built"}
    /\ CallerIdle
    /\ cache_ds \in DOMAIN mem
    /\ \E head \in Ring(mem, cache_ds), slow \in {cache_ds, mem[cache_ds].next} :
         /\ mem' = Measured(mem, slow)
         /\ walk' = [fn |-> "get_msrmts_for_all_set", head |-> head, slow |-> slow]
                       @@ get_msrmts_for_all_set(Measured(mem, slow), head, CallerRes(ctx))
    /\ UNCHANGED <<pc, envVars, heap, wild, frame, brk, allocVars, cnt_lines_per_set, unprivVars,
                   req, cache_ds, removed, ptrs_to_free_idx>>

\* ------------------------------------- get_per_set_sum_of_msrmts
\* time_type is an unsigned integer of TimeBits bits
TimeModulus == 2 ^ TimeBits

\* seeded fault: the sum that overwrites instead of adding
RECURSIVE get_per_set_sum_loop_assign(_, _, _, _, _)
get_per_set_sum_loop_assign(m, head, curr_cl, res, fuel) ==
    IF curr_cl \notin DOMAIN m \/ m[curr_cl].cache_set \notin DOMAIN res
    THEN [terminates |-> FALSE, fault |-> TRUE, res |-> res]
    ELSE IF m[curr_cl].next = head \/ fuel = 0
    THEN [terminates |-> m[curr_cl].next = head, fault |-> FALSE,
          res |-> [res EXCEPT ![m[curr_cl].cache_set] = m[curr_cl].time_msrmt]]
    ELSE get_per_set_sum_loop_assign(m, head, m[curr_cl].next,
          [res EXCEPT ![m[curr_cl].cache_set] = m[curr_cl].time_msrmt], fuel - 1)

\* the do-while along next
RECURSIVE get_per_set_sum_loop(_, _, _, _, _)
get_per_set_sum_loop(m, head, curr_cl, res, fuel) ==
    IF curr_cl \notin DOMAIN m \/ m[curr_cl].cache_set \notin DOMAIN res
    THEN [terminates |-> FALSE, fault |-> TRUE, res |-> res]
    ELSE IF m[curr_cl].next = head \/ fuel = 0
    THEN [terminates |-> m[curr_cl].next = head, fault |-> FALSE,
          res |-> [res EXCEPT ![m[curr_cl].cache_set] = (@ + m[curr_cl].time_msrmt) % TimeModulus]]
    ELSE get_per_set_sum_loop(m, head, m[curr_cl].next,
          [res EXCEPT ![m[curr_cl].cache_set] = (@ + m[curr_cl].time_msrmt) % TimeModulus], fuel - 1)

get_per_set_sum_of_msrmts(m, head, res) ==
    get_per_set_sum_loop(m, head, head, res, Cardinality(DOMAIN m))

\* the do-while along prev with its index; res has one entry per line of
\* the cache
RECURSIVE get_all_msrmts_loop(_, _, _, _, _, _)
get_all_msrmts_loop(m, head, curr_cl, idx, res, fuel) ==
    IF curr_cl \notin DOMAIN m \/ idx \notin DOMAIN res
    THEN [terminates |-> FALSE, fault |-> TRUE, res |-> res, idx |-> idx]
    ELSE IF m[curr_cl].prev = head \/ fuel = 0
    THEN [terminates |-> m[curr_cl].prev = head, fault |-> FALSE,
          res |-> [res EXCEPT ![idx] = m[curr_cl].time_msrmt], idx |-> idx + 1]
    ELSE get_all_msrmts_loop(m, head, m[curr_cl].prev, idx + 1,
          [res EXCEPT ![idx] = m[curr_cl].time_msrmt], fuel - 1)

get_all_msrmts_in_order(m, head, res) ==
    get_all_msrmts_loop(m, head, head, 0, res, Cardinality(DOMAIN m))

\* the caller's array of earlier sums: every entry is the largest time_type
FullRes(c) == [s2 \in 0..(c.sets - 1) |-> TimeModulus - 1]
LineRes(c) == [i \in 0..(c.nr_of_cachelines - 1) |-> 0]

\* a caller probes line by line and adds the measurements up per set
GetPerSetSumOfMsrmts ==
    /\ pc \in {"built", "set_built"}
    /\ CallerIdle
    /\ cache_ds \in DOMAIN mem
    /\ \E head \in {cache_ds, mem[cache_ds].prev}, slow \in {cache_ds, mem[cache_ds].next} :
         /\ mem' = Measured(mem, slow)
         /\ walk' = [fn |-> "get_per_set_sum_of_msrmts", head |-> head, slow |-> slow]
                       @@ get_per_set_sum_of_msrmts(Measured(mem, slow), head, FullRes(ctx))
    /\ UNCHANGED <<pc, envVars, heap, wild, frame, brk, allocVars, cnt_lines_per_set, unprivVars,
                   req, cache_ds, removed, ptrs_to_free_idx>>

\* ... or copies them line by line
GetAllMsrmtsInOrder ==
    /\ pc \in {"built", "set_built"}
    /\ CallerIdle
    /\ cache_ds \in DOMAIN mem
    /\ \E head \in {cache_ds, mem[cache_ds].prev}, slow \in {cache_ds, mem[cache_ds].next} :
         /\ mem' = Measured(mem, slow)
         /\ walk' = [fn |-> "get_all_msrmts_in_order", head |-> head, slow |-> slow]
                       @@ get_all_msrmts_in_order(Measured(mem, slow), head, LineRes(ctx))
    /\ UNCHANGED <<pc, envVars, heap, wild, frame, brk, allocVars, cnt_lines_per_set, unprivVars,
                   req, cache_ds, removed, ptrs_to_free_idx>>

\* ------------------------------------------------ probe_all_cachelines
\* seeded fault: accesstime without "decq (%1)"
accesstime_no_decq(m, p) == [m EXCEPT ![p].next = @ + 1]

\* accesstime(p): "incq (%1)" adds one to the first eight bytes of the line,
\* its next pointer, and "decq (%1)" takes it off again after the timer has
\* stopped
accesstime(m, p) ==
    LET m1 == [m EXCEPT ![p].next = @ + 1]
    IN  [m1 EXCEPT ![p].next = @ - 1]

\* w = [mem, curr_cl, terminates]; slow is the line that was not in the cache
RECURSIVE probe_all_cachelines_loop(_, _, _, _)
probe_all_cachelines_step(m1, head, curr_cl, slow, fuel) ==
    IF m1[curr_cl].prev = head
    THEN [mem |-> m1, curr_cl |-> m1[curr_cl].prev, terminates |-> TRUE]
    ELSE IF fuel = 0 \/ m1[curr_cl].prev \notin DOMAIN m1
    THEN [mem |-> m1, curr_cl |-> m1[curr_cl].prev, terminates |-> FALSE]
    ELSE probe_all_cachelines_loop([mem |-> m1, curr_cl |-> m1[curr_cl].prev, terminates |-> FALSE],
                                   head, slow, fuel - 1)

probe_all_cachelines_loop(w, head, slow, fuel) ==
    probe_all_cachelines_step(
        [accesstime(w.mem, w.curr_cl) EXCEPT
            ![w.curr_cl].time_msrmt = IF w.curr_cl = slow THEN MISS_TIME ELSE HIT_TIME],
        head, w.curr_cl, slow, fuel)

probe_all_cachelines_ret(w) ==
    [w EXCEPT !.curr_cl = IF w.terminates /\ w.curr_cl \in DOMAIN w.mem
                          THEN w.mem[w.curr_cl].next ELSE NULL]

probe_all_cachelines(m, head, slow) ==
    probe_all_cachelines_ret(
        probe_all_cachelines_loop([mem |-> m, curr_cl |-> head, terminates |-> FALSE],
                                  head, slow, Cardinality(DOMAIN m)))

\* a caller measures every line of the structure it holds
ProbeAllCachelines ==
    /\ pc \in {"built", "set_built"}
    /\ CallerIdle
    /\ cache_ds \in DOMAIN mem
    /\ \E slow \in {cache_ds, mem[cache_ds].next} :
         /\ mem' = probe_all_cachelines(mem, cache_ds, slow).mem
         /\ walk' = [fn |-> "probe_all_cachelines", head |-> cache_ds, slow |-> slow,
                     terminates |-> probe_all_cachelines(mem, cache_ds, slow).terminates,
                     ret |-> probe_all_cachelines(mem, cache_ds, slow).curr_cl]
    /\ UNCHANGED <<pc, envVars, heap, wild, frame, brk, allocVars, cnt_lines_per_set, unprivVars,
                   req, cache_ds, removed, ptrs_to_free_idx>>

\* a caller times one walk over the structure, or counts its lines
ProbeFullDs ==
    /\ pc \in {"built", "set_built"}
    /\ CallerIdle
    /\ cache_ds \in DOMAIN mem
    /\ walk' = [fn |-> "probe_full_ds", head |-> cache_ds] @@ probe_full_ds(mem, cache_ds)
    /\ UNCHANGED <<pc, envVars, heapVars, allocVars, cnt_lines_per_set, unprivVars,
                   req, cache_ds, removed, ptrs_to_free_idx>>

GetCacheDsLen ==
    /\ pc \in {"built", "set_built"}
    /\ CallerIdle
    /\ cache_ds \in DOMAIN mem
    /\ walk' = [fn |-> "get_cache_ds_len", head |-> cache_ds] @@ get_cache_ds_len(mem, cache_ds)
    /\ UNCHANGED <<pc, envVars, heapVars, allocVars, cnt_lines_per_set, unprivVars,
                   req, cache_ds, removed, ptrs_to_free_idx>>

\* ------------------------------------------------------------- probe
\* asm_l1_probe_cacheset and asm_l2_probe_cacheset are assembly that is not
\* part of the sources: probe_cacheset times one set and returns the line
\* reached after associativity steps along prev
RECURSIVE probe_cacheset_steps(_, _, _)
probe_cacheset_steps(m, curr_cl, n) ==
    IF n = 0 \/ curr_cl \notin DOMAIN m THEN curr_cl
    ELSE probe_cacheset_steps(m, m[curr_cl].prev, n - 1)

probe_cacheset(c, m, cl, curr_cl) ==
    IF cl = L1 \/ cl = L2 THEN probe_cacheset_steps(m, curr_cl, c.associativity) ELSE NULL

\* seeded fault: probe that returns curr_cs instead of curr_cs->next
probe_ret_head(m, w) == IF w.terminates THEN w.curr_cs ELSE NULL

\* "return curr_cs->next;"
probe_ret(m, w) == IF w.terminates THEN m[w.curr_cs].next ELSE NULL

\* w = [curr_cs, steps, visited]: visited lists the lines probe_cacheset was
\* called with, steps counts the calls
RECURSIVE probe_loop(_, _, _, _, _, _)
probe_loop(c, m, cl, head, w, fuel) ==
    LET curr_cs == probe_cacheset(c, m, cl, w.curr_cs)
        w1 == [curr_cs |-> curr_cs, steps |-> w.steps + 1,
               visited |-> Append(w.visited, w.curr_cs)]
    IN  IF curr_cs = head THEN [terminates |-> TRUE] @@ w1
        ELSE IF fuel = 0 \/ curr_cs \notin DOMAIN m THEN [terminates |-> FALSE] @@ w1
        ELSE probe_loop(c, m, cl, head, w1, fuel - 1)

probe_walk(c, m, cl, head) ==
    probe_loop(c, m, cl, head, [curr_cs |-> head, steps |-> 0, visited |-> <<>>],
               Cardinality(DOMAIN m))

probe(c, m, cl, head) ==
    [fn |-> "probe", head |-> head, terminates |-> probe_walk(c, m, cl, head).terminates,
     steps |-> probe_walk(c, m, cl, head).steps, visited |-> probe_walk(c, m, cl, head).visited,
     ret |-> probe_ret(m, probe_walk(c, m, cl, head))]

\* the handle of the attack loop: the entry of the builder, then what the
\* probe of the round before returned
curr_head == IF walk = NoWalk THEN cache_ds ELSE walk.ret

\* p: what PRIME returned for curr_head; the round hangs when a walk does
\* not get back to its start
round(c, m, cl, h, p) ==
    IF ~p.terminates \/ p.ret \notin DOMAIN m
    THEN [fn |-> "round", head |-> h, primed |-> p.ret, terminates |-> FALSE, steps |-> 0,
          visited |-> <<>>, ret |-> NULL]
    ELSE [fn |-> "round", primed |-> p.ret] @@ [probe(c, m, cl, p.ret) EXCEPT !.head = h]

\* one round of the attack loop: curr_head = PRIME(curr_head);
\* next_head = probe(TARGET_CACHE, curr_head); curr_head = next_head
PrimeProbe ==
    /\ pc = "built"
    /\ walk.fn \in {"none", "round"}
    /\ curr_head \in DOMAIN mem
    /\ \E cl \in {L1, L2}, rev \in BOOLEAN, slow \in {cache_ds, mem[cache_ds].next} :
         /\ mem' = Measured(mem, slow)
         /\ walk' = round(ctx, mem, cl, curr_head,
                          IF rev THEN prime_rev(mem, curr_head) ELSE prime(mem, curr_head))
    /\ UNCHANGED <<pc, envVars, heap, wild, frame, brk, allocVars, cnt_lines_per_set, unprivVars,
                   req, cache_ds, removed, ptrs_to_free_idx>>

Next ==
    \/ AllocateVirtual
    \/ AllocatePhys
    \/ PrivPage
    \/ AllocateUnpriv
    \/ UnprivPage
    \/ FinishIdentifyingGroups
    \/ FreeUnused
    \/ Build
    \/ PrepareCacheSetDs
    \/ ReleaseCacheDs
    \/ ReleaseCacheSetDs
    \/ PrepareVictim
    \/ ReleaseVictim
    \/ ClRemove
    \/ Prime
    \/ PrimeRev
    \/ GetMsrmtsForAllSet
    \/ GetPerSetSumOfMsrmts
    \/ GetAllMsrmtsInOrder
    \/ PrimeProbe
    \/ ProbeAllCachelines
    \/ ProbeFullDs
    \/ GetCacheDsLen

Spec == Init /\ [][Next]_vars

\* --------------------------------- the privileged builder on its own
\* The allocator keeps handing out pages, and among them pages of every
\* cache group: an iteration that accepts its page is taken eventually.
PrivInit == Init /\ ctx.addressing = PHYSICAL /\ can_trans_phys_addrs(priv)

PrivNext ==
    \/ AllocatePhys
    \/ PrivPage
    \/ FreeUnused

PrivSpec ==
    /\ PrivInit /\ [][PrivNext]_vars
    /\ WF_vars(AllocatePhys)
    /\ WF_vars(PrivPage /\ cl_ptr_idx' # cl_ptr_idx)
    /\ WF_vars(FreeUnused)

\* ------------------------------------------- the translation on its own
\* pagemap entries: a frame number or a swap entry in the low bits, which
\* an unprivileged reader sees as zero, and the flags of the high bits
PagemapEntries(pv) ==
    {[lo |-> l, hi |-> h] : l \in (IF pv THEN 0..MaxPfn ELSE {0}), h \in {0, PM_PRESENT, PM_SWAPPED, PM_PRESENT + 1}}

\* the pages the file has an entry for; the page after them lies past its end
TransPages == {0, 1}
TransVaddrs == {vpn * PAGE_SIZE + o : vpn \in TransPages \cup {2}, o \in {0, StackAddr, PAGE_SIZE - 1}}

TransInit ==
    /\ BuilderInit
    /\ ctx.addressing = PHYSICAL /\ ctx.sets = CACHE_GROUP_SIZE /\ ctx.associativity = 1
    /\ pagemap \in [TransPages -> PagemapEntries(priv)]
    /\ open_fds = {}
    /\ trans = NoTrans
    /\ ctx_call = [conf |-> <<>>] @@ NoCtxCall

GetPhysAddr ==
    /\ \E vaddr \in TransVaddrs, open_ok \in BOOLEAN, rd_err \in BOOLEAN :
         trans' = [fn |-> "get_phys_addr", vaddr |-> vaddr] @@ get_phys_addr_call(pagemap, open_fds, open_ok, rd_err, vaddr)
    /\ open_fds' = trans'.fds
    /\ UNCHANGED <<pc, ctx, priv, oracle, ctx_call, pagemap, heapVars, allocVars, cnt_lines_per_set, unprivVars, callerVars>>

\* can_trans_phys_addrs translates the address of its own local variable
CanTransPhysAddrs ==
    /\ \E open_ok \in BOOLEAN, rd_err \in BOOLEAN :
         trans' = [fn |-> "can_trans_phys_addrs", vaddr |-> StackAddr] @@ get_phys_addr_call(pagemap, open_fds, open_ok, rd_err, StackAddr)
    /\ open_fds' = trans'.fds
    /\ UNCHANGED <<pc, ctx, priv, oracle, ctx_call, pagemap, heapVars, allocVars, cnt_lines_per_set, unprivVars, callerVars>>

TransNext ==
    \/ GetPhysAddr
    \/ CanTransPhysAddrs

TransSpec == TransInit /\ [][TransNext]_vars

\* ------------------------------------------- get_cache_ctx on its own
\* the L1_* and L2_* macros of a device
DeviceConfs ==
    [{L1, L2} -> {[addressing |-> c.addressing, sets |-> c.sets, associativity |-> c.associativity] : c \in Contexts}]

CtxInit ==
    /\ BuilderInit
    /\ ctx.addressing = VIRTUAL /\ ctx.sets = CACHE_GROUP_SIZE /\ ctx.associativity = 1
    /\ pagemap = <<>>
    /\ open_fds = {}
    /\ trans = NoTrans
    /\ \E conf \in DeviceConfs : ctx_call = [conf |-> conf] @@ NoCtxCall

\* the caller keeps the pointer it gets, if it gets one
GetCacheCtx ==
    /\ \E cache_level \in 0..MaxLevel, malloc_ok \in BOOLEAN :
         ctx_call' = [conf |-> ctx_call.conf, fn |-> "get_cache_ctx", cache_level |-> cache_level, malloc_ok |-> malloc_ok]
                        @@ get_cache_ctx_level(ctx_call.conf, cache_level, malloc_ok)
    /\ ctx' = IF ctx_call'.ret = <<>> THEN ctx ELSE ctx_call'.ret[1]
    /\ UNCHANGED <<pc, priv, oracle, transVars, heapVars, allocVars, cnt_lines_per_set, unprivVars, callerVars>>

CtxNext ==
    \/ GetCacheCtx

CtxSpec == CtxInit /\ [][CtxNext]_vars

\* --------------------------------------- the list operations on their own
\* the lines of the memory, and the rings a caller can have linked of some
\* of them: ring[i] is followed by ring[i + 1], the last line by ring[1]
ListAddrs == {k * CACHELINE_SIZE : k \in 1..MaxListLines}

RingOrders ==
    {ring \in UNION {[1..n -> ListAddrs] : n \in 1..(MaxListLines - 1)} :
        \A i, j \in DOMAIN ring : i # j => ring[i] # ring[j]}

RingIndex(ring, a) == CHOOSE i \in DOMAIN ring : ring[i] = a

\* the lines off the ring are zeroed, as memset leaves them
ListMem(ring) ==
    [a \in ListAddrs |->
        IF \E i \in DOMAIN ring : ring[i] = a
        THEN cacheline(ring[(RingIndex(ring, a) % Len(ring)) + 1],
                       ring[((RingIndex(ring, a) + Len(ring) - 2) % Len(ring)) + 1], 0, 0, 0)
        ELSE cacheline(NULL, NULL, 0, 0, 0)]

OnRing(m) == {a \in DOMAIN m : m[a].next # NULL}

ListInit ==
    /\ ctx \in Contexts
    /\ ctx.addressing = VIRTUAL /\ ctx.sets = CACHE_GROUP_SIZE /\ ctx.associativity = 1
    /\ priv = FALSE
    /\ oracle = "none"
    /\ req = <<>>
    /\ pc = "list"
    /\ \E ring \in RingOrders : mem = ListMem(ring)
    /\ heap = <<>>
    /\ wild = {}
    /\ brk = 1
    /\ cl_ptr_arr = <<>>
    /\ cl_ptr_idx = 0
    /\ cnt_lines_per_set = <<>>
    /\ cls_to_del = NULL
    /\ cl_candidates = NULL
    /\ frame = <<>>
    /\ rejected = 0
    /\ cache_ds = NULL
    /\ walk = NoWalk
    /\ removed = NULL
    /\ ptrs_to_free_idx = 0
    /\ cache_set_ds_ptrs = <<>>
    /\ cache_set_ds_lens = <<>>
    /\ cache_group = 0
    /\ repeated_collisions = 0
    /\ ctx_call = [conf |-> <<>>] @@ NoCtxCall
    /\ pagemap = <<>>
    /\ open_fds = {}
    /\ trans = NoTrans

\* cl_insert(last_cl, new_cl) with a line of the ring or NULL and a line off it
ClInsert ==
    /\ pc = "list"
    /\ walk = NoWalk
    /\ \E last_cl \in OnRing(mem) \cup {NULL}, new_cl \in DOMAIN mem \ OnRing(mem) :
         /\ mem' = cl_insert(mem, last_cl, new_cl)
         /\ walk' = [fn |-> "cl_insert", last_cl |-> last_cl, new_cl |-> new_cl, before |-> mem]
    /\ UNCHANGED <<pc, envVars, heap, wild, frame, brk, allocVars, cnt_lines_per_set, unprivVars,
                   req, cache_ds, removed, ptrs_to_free_idx>>

\* cl_remove(new_cl) of the line just inserted
ClInsertRemove ==
    /\ pc = "list"
    /\ walk.fn = "cl_insert"
    /\ mem' = cl_remove(mem, walk.new_cl)
    /\ walk' = [walk EXCEPT !.fn = "cl_insert_remove"]
    /\ UNCHANGED <<pc, envVars, heap, wild, frame, brk, allocVars, cnt_lines_per_set, unprivVars,
                   req, cache_ds, removed, ptrs_to_free_idx>>

\* cl_replace(new_cl, old_cl) with a line of the ring and a line off it
ClReplace ==
    /\ pc = "list"
    /\ walk = NoWalk
    /\ \E old_cl \in OnRing(mem), new_cl \in DOMAIN mem \ OnRing(mem) :
         /\ mem' = cl_replace(mem, new_cl, old_cl)
         /\ walk' = [fn |-> "cl_replace", old_cl |-> old_cl, new_cl |-> new_cl, before |-> mem]
    /\ UNCHANGED <<pc, envVars, heap, wild, frame, brk, allocVars, cnt_lines_per_set, unprivVars,
                   req, cache_ds, removed, ptrs_to_free_idx>>

\* cl_replace(old_cl, new_cl) after cl_replace(new_cl, old_cl)
ClReplaceBack ==
    /\ pc = "list"
    /\ walk.fn = "cl_replace"
    /\ mem' = cl_replace(mem, walk.old_cl, walk.new_cl)
    /\ walk' = [walk EXCEPT !.fn = "cl_replace_back"]
    /\ UNCHANGED <<pc, envVars, heap, wild, frame, brk, allocVars, cnt_lines_per_set, unprivVars,
                   req, cache_ds, removed, ptrs_to_free_idx>>

ListNext ==
    \/ ClInsert
    \/ ClInsertRemove
    \/ ClReplace
    \/ ClReplaceBack

ListSpec == ListInit /\ [][ListNext]_vars

\* ------------------------------------- is_cached and random_perm on their own
\* uint32_t is an unsigned integer of WordBits bits
WordModulus == 2 ^ WordBits

\* "return accesstime(p) - accesstime_overhead();" in uint32_t: t and o are
\* what the two measurements returned
access_diff(t, o) == (t + WordModulus - o) % WordModulus

is_cached(access_time, t, o) == access_diff(t, o) <= access_time

\* random_perm with its loop counter in uint32_t.  w = [arr, i, swaps,
\* touched, status]: touched holds the indices of arr the swaps have read and
\* written; an access outside the array ends the run with status
\* "out_of_bounds", after it the program can do anything
RECURSIVE random_perm_run_loop(_, _, _)
random_perm_run_swap(w, arr_len, rands, swap_idx) ==
    IF w.i >= arr_len \/ swap_idx >= arr_len
    THEN [w EXCEPT !.touched = @ \cup {w.i, swap_idx}, !.status = "out_of_bounds"]
    ELSE random_perm_run_loop([arr     |-> swap(w.arr, w.i, swap_idx),
                               i       |-> w.i - 1,
                               swaps   |-> w.swaps + 1,
                               touched |-> w.touched \cup {w.i, swap_idx},
                               status  |-> "ok"],
                              arr_len, rands)

random_perm_run_loop(w, arr_len, rands) ==
    IF w.i > 0
    THEN random_perm_run_swap(w, arr_len, rands, rands[w.swaps] % w.i)
    ELSE w

\* "uint32_t i = arr_len - 1"
random_perm_run(arr, arr_len, rands) ==
    random_perm_run_loop([arr |-> arr, i |-> (arr_len + WordModulus - 1) % WordModulus,
                          swaps |-> 0, touched |-> {}, status |-> "ok"],
                         arr_len, rands)

UtilInit ==
    /\ BuilderInit
    /\ ctx.addressing = VIRTUAL /\ ctx.sets = CACHE_GROUP_SIZE /\ ctx.associativity = 1
    /\ pagemap = <<>>
    /\ open_fds = {}
    /\ trans = NoTrans
    /\ ctx_call = [conf |-> <<>>] @@ NoCtxCall

\* is_cached with a threshold and the two measurements access_diff takes
IsCached ==
    /\ walk = NoWalk
    /\ \E access_time \in 0..(WordModulus - 1), t \in 0..(WordModulus - 1), o \in 0..(WordModulus - 1) :
         walk' = [fn |-> "is_cached", access_time |-> access_time, t |-> t, o |-> o,
                  ret |-> is_cached(access_time, t, o)]
    /\ UNCHANGED <<pc, envVars, heapVars, allocVars, cnt_lines_per_set, unprivVars,
                   req, cache_ds, removed, ptrs_to_free_idx>>

\* gen_random_indices: random_perm on the array 0, 1, ..., arr_len - 1
RandomPerm ==
    /\ walk = NoWalk
    /\ \E arr_len \in 0..MaxPermLen, rands \in [0..(MaxPermLen - 1) -> 0..RandMax] :
         walk' = [fn |-> "random_perm", arr_len |-> arr_len, rands |-> rands]
                    @@ random_perm_run([i \in 0..(arr_len - 1) |-> i], arr_len, rands)
    /\ UNCHANGED <<pc, envVars, heapVars, allocVars, cnt_lines_per_set, unprivVars,
                   req, cache_ds, removed, ptrs_to_free_idx>>

UtilNext ==
    \/ IsCached
    \/ RandomPerm

UtilSpec == UtilInit /\ [][UtilNext]_vars

\* ====================================================== properties
\* the number of steps along next (or prev) after which a walk from x is at
\* x again for the first time; 0 when it never is
RECURSIVE StepsToReturnFrom(_, _, _, _, _)
StepsToReturnFrom(m, x, curr_cl, forward, n) ==
    LET nxt == IF forward THEN m[curr_cl].next ELSE m[curr_cl].prev
    IN  IF nxt = x THEN n + 1
        ELSE IF nxt \notin DOMAIN m \/ n >= Cardinality(DOMAIN m) THEN 0
        ELSE StepsToReturnFrom(m, x, nxt, forward, n + 1)

StepsToReturn(m, x, forward) ==
    IF x \in DOMAIN m THEN StepsToReturnFrom(m, x, x, forward, 0) ELSE 0

\* the lines of set s on the ring of head
SetLines(m, head, s) == {x \in Ring(m, head) : m[x].cache_set = s}

\* C1: in every structure prepare_cache_ds returns, whichever builder made
\* it, a walk along next from any line is back at the line for the first
\* time after nr_of_cachelines steps, so is a walk along prev, next and prev
\* are inverse to each other at every line, and get_cache_ds_len(entry) is
\* nr_of_cachelines.
C1_RingOfAllLines ==
    pc = "built" =>
        /\ cache_ds \in DOMAIN mem
        /\ \A x \in DOMAIN mem :
             /\ StepsToReturn(mem, x, TRUE) = ctx.nr_of_cachelines
             /\ StepsToReturn(mem, x, FALSE) = ctx.nr_of_cachelines
             /\ mem[mem[x].next].prev = x
             /\ mem[mem[x].prev].next = x
        /\ get_cache_ds_len(mem, cache_ds)
             = [terminates |-> TRUE, fault |-> FALSE, cnt |-> ctx.nr_of_cachelines]

\* a structure of the unprivileged builder with more than one cache group
C1_Witness ==
    /\ pc = "built"
    /\ oracle = "exact"
    /\ ctx.sets > CACHE_GROUP_SIZE
    /\ walk = NoWalk

\* C2: on the virtual and the privileged physical path the assert of
\* prepare_cache_ds never fires, and in the structure returned every set
\* index below `sets` is carried by exactly `associativity` lines of the ring.
C2_SetsFull ==
    (ctx.addressing = VIRTUAL \/ can_trans_phys_addrs(priv)) =>
        /\ pc # "assert_failed"
        /\ pc = "built" =>
             \A s \in 0..(ctx.sets - 1) :
                 Cardinality(SetLines(mem, cache_ds, s)) = ctx.associativity

\* a structure of the privileged builder that rejected a page on the way
C2_Witness ==
    /\ pc = "built"
    /\ ctx.addressing = PHYSICAL
    /\ can_trans_phys_addrs(priv)
    /\ ctx.sets > CACHE_GROUP_SIZE
    /\ \E b \in DOMAIN heap : heap[b].frees = 1

\* C3: in every structure prepare_cache_ds returns each set has exactly one
\* line with the FIRST bit and exactly one line with the LAST bit.
C3_OneFirstOneLastPerSet ==
    pc = "built" =>
        \A s \in 0..(ctx.sets - 1) :
            /\ Cardinality({x \in SetLines(mem, cache_ds, s) :
                               IS_FIRST(mem[x].flags) = 1}) = 1
            /\ Cardinality({x \in SetLines(mem, cache_ds, s) :
                               IS_LAST(mem[x].flags) = 1}) = 1

\* the line n steps along next (or prev) from x
RECURSIVE NthLine(_, _, _, _)
NthLine(m, x, forward, n) ==
    IF n = 0 \/ x \notin DOMAIN m THEN x
    ELSE NthLine(m, IF forward THEN m[x].next ELSE m[x].prev, forward, n - 1)

\* C4: in every structure prepare_cache_ds returns the lines of a set are
\* contiguous: the associativity-1 lines after a FIRST line carry its set and
\* the last of them is LAST; the line after a LAST line is the FIRST line of
\* another set; the entry is a FIRST line; prev mirrors next.
C4_SetsContiguous ==
    pc = "built" =>
        /\ IS_FIRST(mem[cache_ds].flags) = 1
        /\ \A x \in Ring(mem, cache_ds) :
             /\ IS_FIRST(mem[x].flags) = 1 =>
                  /\ \A k \in 1..(ctx.associativity - 1) :
                       mem[NthLine(mem, x, TRUE, k)].cache_set = mem[x].cache_set
                  /\ IS_LAST(mem[NthLine(mem, x, TRUE, ctx.associativity - 1)].flags) = 1
                  /\ IS_LAST(mem[mem[x].prev].flags) = 1
                  /\ mem[mem[x].prev].cache_set # mem[x].cache_set
             /\ IS_LAST(mem[x].flags) = 1 =>
                  /\ \A k \in 1..(ctx.associativity - 1) :
                       mem[NthLine(mem, x, FALSE, k)].cache_set = mem[x].cache_set
                  /\ IS_FIRST(mem[NthLine(mem, x, FALSE, ctx.associativity - 1)].flags) = 1
                  /\ IS_FIRST(mem[mem[x].next].flags) = 1
                  /\ mem[mem[x].next].cache_set # mem[x].cache_set

\* the sequence visits every line of the ring of head exactly once
VisitsRingOnce(m, head, visited) ==
    /\ Len(visited) = Cardinality(Ring(m, head))
    /\ {visited[i] : i \in 1..Len(visited)} = Ring(m, head)

\* C5: prime(head) on the ring prepare_cache_ds built terminates after as many
\* next-steps as the ring has lines, visits every line exactly once and
\* returns head.prev.
C5_PrimeWalk ==
    walk.fn = "prime" =>
        /\ walk.terminates
        /\ walk.steps = Cardinality(Ring(mem, walk.head))
        /\ walk.steps = ctx.nr_of_cachelines
        /\ VisitsRingOnce(mem, walk.head, walk.visited)
        /\ \A i \in 1..(Len(walk.visited) - 1) : walk.visited[i + 1] = mem[walk.visited[i]].next
        /\ walk.ret = mem[walk.head].prev

C5_Witness ==
    /\ walk.fn = "prime"
    /\ walk.head # cache_ds
    /\ walk.steps >= 4
    /\ walk.ret # walk.head

\* C6 (as the code has it): prime_rev(head) on the ring prepare_cache_ds built
\* terminates, visits every line exactly once by following prev, and returns
\* head.prev.
C6_PrimeRevWalk ==
    walk.fn = "prime_rev" =>
        /\ walk.terminates
        /\ walk.steps = ctx.nr_of_cachelines
        /\ VisitsRingOnce(mem, walk.head, walk.visited)
        /\ \A i \in 1..(Len(walk.visited) - 1) : walk.visited[i + 1] = mem[walk.visited[i]].prev
        /\ walk.ret = mem[walk.head].prev

C6_Witness ==
    /\ walk.fn = "prime_rev"
    /\ walk.head # cache_ds
    /\ walk.steps >= 4
    /\ mem[walk.head].prev # mem[walk.head].next

\* C6 as stated: prime_rev(head) visits every line exactly once by following
\* prev, terminates, and returns head.next.
C6_PrimeRevReturnsNext ==
    walk.fn = "prime_rev" =>
        /\ walk.terminates
        /\ VisitsRingOnce(mem, walk.head, walk.visited)
        /\ \A i \in 1..(Len(walk.visited) - 1) : walk.visited[i + 1] = mem[walk.visited[i]].prev
        /\ walk.ret = mem[walk.head].next

\* get_cache_ds_len and cache_ds_sanity_check both come back, and both
\* report that the structure is no longer complete
RemovalDetected ==
    LET l == get_cache_ds_len(mem, cache_ds)
        r == cache_ds_sanity_check(mem, ctx, cache_ds)
    IN  /\ l.terminates
        /\ l.cnt # ctx.nr_of_cachelines
        /\ r.terminates
        /\ r.ret # 0

\* C8 (as the code has it): for every line x other than the entry line of a
\* structure built by prepare_cache_ds, after cl_remove(x) get_cache_ds_len(entry)
\* and cache_ds_sanity_check(ctx, entry) terminate, the length is
\* nr_of_cachelines - 1 and the sanity check returns nonzero.
C8_RemoveOtherDetected ==
    (pc = "unlinked" /\ removed # cache_ds) =>
        /\ RemovalDetected
        /\ get_cache_ds_len(mem, cache_ds).cnt = ctx.nr_of_cachelines - 1

C8_Witness ==
    /\ pc = "unlinked"
    /\ removed # cache_ds
    /\ ctx.nr_of_cachelines >= 4
    /\ mem[removed].cache_set = mem[cache_ds].cache_set

\* C8 as stated: for every line x, the entry line included, after cl_remove(x)
\* both traversals terminate, the length differs from nr_of_cachelines and the
\* sanity check returns nonzero.
C8_RemoveAnyDetected ==
    pc = "unlinked" => RemovalDetected

\* where a caller of prepare_victim / release_victim is
VictimStates == {"victim_built", "victim_crashed", "victim_released"}

\* the page bases of the lines on the ring of head
RingPages(m, head) == {remove_cache_group_set(x) : x \in Ring(m, head)}

\* the k-th line (from 0) of a walk along next from head
LineAt(m, head, k) == NthLine(m, head, TRUE, k)

\* what C7 promises of the ring prepare_cache_set_ds returned for the list sets
SetRingAsRequested(m, c, head, sets) ==
    /\ head \in DOMAIN m
    /\ Ring(m, head) \subseteq DOMAIN m
    /\ Cardinality(Ring(m, head)) = Len(sets) * c.associativity
    /\ \A i \in 1..Len(sets) :
         SetLines(m, head, sets[i]) = {x \in DOMAIN m : m[x].cache_set = sets[i]}
    /\ \A x \in Ring(m, head) :
         /\ m[x].next \in DOMAIN m /\ m[x].prev \in DOMAIN m
         /\ m[m[x].next].prev = x
         /\ m[m[x].prev].next = x
    /\ \A k \in 0..(Len(sets) * c.associativity - 1) :
         m[LineAt(m, head, k)].cache_set = sets[(k \div c.associativity) + 1]
    /\ IS_FIRST(m[head].flags) = 1
    /\ m[head].cache_set = sets[1]

\* C7: prepare_cache_set_ds(ctx, sets, n) for n distinct valid set indices
\* returns a ring of n*associativity lines holding exactly the lines of the
\* listed sets, doubly-link consistent, with the sets in list order, entered
\* at the FIRST line of sets[0], for VIRTUAL and PHYSICAL contexts.
C7_SetRing ==
    [][(req = <<>> /\ req' # <<>> /\ pc' \notin VictimStates) =>
          /\ pc' = "set_built"
          /\ SetRingAsRequested(mem', ctx, cache_ds', req')]_vars

\* C9: for a PHYSICAL context, from prepare_cache_ds to release_cache_ds no
\* page is freed twice, free is never called on an address that is not an
\* allocated page, the pages alive while the ring is in use are exactly the
\* pages its lines lie in, every page is freed once release_cache_ds has
\* returned, and ptrs_to_free never takes more than cache_size/PAGE_SIZE entries.
C9_PagesFreedOnce ==
    (ctx.addressing = PHYSICAL /\ req = <<>>) =>
        /\ wild = {}
        /\ \A b \in DOMAIN heap : heap[b].frees <= 1
        /\ pc = "built" =>
             /\ Ring(mem, cache_ds) \subseteq DOMAIN mem
             /\ Live(heap) = RingPages(mem, cache_ds)
        /\ pc = "released" => Live(heap) = {}
        /\ ptrs_to_free_idx <= ctx.cache_size \div PAGE_SIZE

C9_Witness ==
    /\ ctx.addressing = PHYSICAL
    /\ req = <<>>
    /\ pc = "released"
    /\ ~can_trans_phys_addrs(priv)
    /\ ptrs_to_free_idx >= 2
    /\ Cardinality(DOMAIN heap) > ptrs_to_free_idx
    /\ \E b \in DOMAIN heap : heap[b].size = 2 * PAGE_SIZE

\* the detaching of unused lines leaves the links of the lines that stay
\* alone, but for the set-boundary links
LinksKept(m, n, head) ==
    \A x \in Ring(n, head) :
        /\ IS_LAST(m[x].flags) = 1 \/ n[x].next = m[x].next
        /\ IS_FIRST(m[x].flags) = 1 \/ n[x].prev = m[x].prev

\* C10: for a PHYSICAL context, prepare_cache_set_ds followed by
\* release_cache_set_ds frees every allocated page exactly once: pages of
\* cache groups without a requested set inside prepare_cache_set_ds, every
\* other page through the returned ring in release_cache_set_ds; and the
\* detaching changes no link of a line that stays other than the set-boundary
\* links.
C10_SetDsPagesFreedOnce ==
    [][(ctx.addressing = PHYSICAL /\ req' # <<>> /\ pc' \notin VictimStates) =>
          /\ pc' # "crashed"
          /\ wild' = {}
          /\ \A b \in DOMAIN heap' : heap'[b].frees <= 1
          /\ pc' = "set_built" =>
               /\ Ring(mem', cache_ds') \subseteq DOMAIN mem'
               /\ Live(heap') = RingPages(mem', cache_ds')
               /\ LinksKept(mem, mem', cache_ds')
          /\ pc' = "released" => Live(heap') = {}]_vars

\* C11: for a VIRTUAL context, the address release_cache_ds, release_cache_set_ds
\* and release_victim pass to free, given the handle of prepare_cache_ds,
\* prepare_cache_set_ds and prepare_victim, is the base of the one block
\* allocate_cache_ds obtained: after the release that block is freed exactly
\* once and free was called on no other address.
C11_VirtualFreesBlockBase ==
    (ctx.addressing = VIRTUAL /\ pc \in {"released", "victim_released"}) =>
        /\ wild = {}
        /\ Cardinality(DOMAIN heap) = 1
        /\ \A b \in DOMAIN heap : heap[b].frees = 1

\* C12: for a PHYSICAL context and every associativity >= 1, prepare_victim
\* returns, having freed the page of every other line of the target set once
\* and not the page of the returned line; release_victim then frees that page,
\* after which no page is allocated any more; no page is freed twice and free
\* is called on no other address.
C12_VictimPagesFreedOnce ==
    (ctx.addressing = PHYSICAL /\ pc \in VictimStates) =>
        /\ pc # "victim_crashed"
        /\ wild = {}
        /\ \A b \in DOMAIN heap : heap[b].frees <= 1
        /\ pc = "victim_built" =>
             /\ cache_ds \in DOMAIN mem
             /\ Live(heap) = {remove_cache_group_set(cache_ds)}
        /\ pc = "victim_released" => Live(heap) = {}

\* the set the address of a line maps to: by its virtual address for a
\* VIRTUAL context, by its physical address otherwise
MappedSet(c, fr, cl) ==
    IF c.addressing = VIRTUAL THEN get_virt_cache_set(c, cl)
    ELSE get_phys_cache_set(c, fr, TRUE, cl)

\* what C13 promises of the line prepare_victim returned for target_set
VictimInTargetSet(c, pv, fr, m, victim_cl, target_set) ==
    /\ victim_cl \in DOMAIN m
    /\ m[victim_cl].cache_set = target_set
    /\ IF c.addressing = VIRTUAL \/ can_trans_phys_addrs(pv)
       THEN MappedSet(c, fr, victim_cl) = target_set
       ELSE MappedSet(c, fr, victim_cl) % CACHE_GROUP_SIZE = target_set % CACHE_GROUP_SIZE

\* C13: for every target_set t in [0, sets), prepare_victim(ctx, t) returns a
\* line tagged with t; its virtual (VIRTUAL) or physical (privileged PHYSICAL)
\* address maps to set t, and for an unprivileged PHYSICAL context to a set
\* congruent to t modulo CACHE_GROUP_SIZE.
C13_VictimInTargetSet ==
    pc \in {"victim_built", "victim_crashed"} =>
        /\ pc = "victim_built"
        /\ VictimInTargetSet(ctx, priv, frame, mem, cache_ds, req[1])

\* the set index by shifting the line offset out and masking; paddr is the
\* virtual address for a VIRTUAL context
ShiftAndMask(sets, paddr) == (paddr \div CACHELINE_SIZE) % sets

\* the address the cache indexes a line by
IndexAddress(c, fr, cl) ==
    IF c.addressing = VIRTUAL THEN cl ELSE get_phys_addr(fr, TRUE, cl).paddr

AcceptedLines == {cl_ptr_arr[i] : i \in 0..(cl_ptr_idx - 1)} \cap DOMAIN mem

\* no physical set holds more accepted lines than the cache has ways
NoSetOverfull ==
    \A x \in AcceptedLines :
        Cardinality({y \in AcceptedLines :
                        MappedSet(ctx, frame, y) = MappedSet(ctx, frame, x)})
            <= ctx.associativity

\* all lines of the ring that share a tag share one physical set
OnePhysicalSetPerTag ==
    \A x, y \in Ring(mem, cache_ds) :
        mem[x].cache_set = mem[y].cache_set
            => MappedSet(ctx, frame, x) = MappedSet(ctx, frame, y)

\* C15: with an exact collision oracle and for every order in which the
\* allocator hands out pages, the unprivileged builder returns a structure in
\* which every tagged set has exactly associativity lines and all lines that
\* share a tag share one physical set.  The builder never takes a line out of
\* cl_ptr_arr again, so for this it may at no time have accepted more than
\* associativity lines of one physical set.
C15_UnprivSameInvariants ==
    (ctx.addressing = PHYSICAL /\ ~can_trans_phys_addrs(priv) /\ oracle = "exact") =>
        /\ pc = "unpriv_loop" => NoSetOverfull
        /\ pc # "assert_failed"
        /\ pc = "built" =>
             /\ \A s \in 0..(ctx.sets - 1) :
                  Cardinality(SetLines(mem, cache_ds, s)) = ctx.associativity
             /\ OnePhysicalSetPerTag

\* ------------------------------------------------------------------- C16
IndexPerms(n) == {f \in [0..(n - 1) -> 0..(n - 1)] : \A i, j \in 0..(n - 1) : f[i] = f[j] => i = j}

\* C16: gen_random_indices can return every permutation of 0..n-1, for the
\* n the builders call it with (the number of sets, for the order of the
\* sets on the ring, and the associativity, for the order of the lines of
\* a set): for each permutation some sequence of rand() results yields it
C16_EveryPermutationPossible ==
    /\ IndexPerms(ctx.sets) \subseteq PermOutcomes(ctx.sets)
    /\ IndexPerms(ctx.associativity) \subseteq PermOutcomes(ctx.associativity)

\* ------------------------------------------------------------------- C17
\* what the pagemap holds for the page of vaddr, if it has an entry
EntryOf(pm, vaddr) == IF (vaddr \div PAGE_SIZE) \in DOMAIN pm THEN pm[vaddr \div PAGE_SIZE] ELSE [lo |-> 0, hi |-> 0]
PresentBit(data) == (data.hi \div PM_PRESENT) % 2

TransFails(pm, t) ==
    \/ t.pagemap_fd < 0
    \/ t.entry.ret # 0
    \/ PresentBit(EntryOf(pm, t.vaddr)) = 0
    \/ EntryOf(pm, t.vaddr).lo = 0

\* C17: get_phys_addr returns 1 and leaves *paddr alone whenever the pagemap
\* cannot be opened or read, the present bit of the entry is clear or its
\* frame number is zero; otherwise it returns 0, has read the entry at
\* offset 8 * (vaddr / page_size) and has written
\* pfn * page_size + vaddr mod page_size to *paddr
C17_FailsUnlessPresentFrame ==
    trans.fn = "get_phys_addr" =>
        IF TransFails(pagemap, trans)
        THEN trans.ret = 1 /\ ~trans.wrote
        ELSE /\ trans.ret = 0 /\ trans.wrote
             /\ trans.entry.offset = 8 * (trans.vaddr \div PAGE_SIZE)
             /\ trans.paddr = EntryOf(pagemap, trans.vaddr).lo * PAGE_SIZE + (trans.vaddr % PAGE_SIZE)

\* ------------------------------------------------------------------- C18
\* C18: can_trans_phys_addrs, and get_phys_addr on each of its paths, closes
\* every descriptor it opened before it returns: no call changes the set
\* of open descriptors
C18_DescriptorsUnchanged == [][open_fds' = open_fds]_vars

\* ------------------------------------------------------------------- C19
CtxArithmetic(c) ==
    /\ c.nr_of_cachelines = c.sets * c.associativity
    /\ c.set_size = CACHELINE_SIZE * c.associativity
    /\ c.cache_size = c.sets * c.set_size

KnownLevelGivesCtx(call) ==
    (call.outcome = "returned" /\ call.cache_level \in {L1, L2}) =>
        /\ Len(call.ret) = 1
        /\ call.ret[1].addressing = call.conf[call.cache_level].addressing
        /\ call.ret[1].sets = call.conf[call.cache_level].sets
        /\ call.ret[1].associativity = call.conf[call.cache_level].associativity
        /\ CtxArithmetic(call.ret[1])

\* C19 as stated: get_cache_ctx never returns for a level other than L1 and
\* L2, and for L1 and L2 it returns a context of the level's configuration
\* with nr_of_cachelines = sets * associativity,
\* set_size = CACHELINE_SIZE * associativity, cache_size = sets * set_size
C19_UnknownLevelAborts ==
    ctx_call.fn = "get_cache_ctx" =>
        /\ ctx_call.cache_level \notin {L1, L2} => ctx_call.outcome = "aborted"
        /\ KnownLevelGivesCtx(ctx_call)

\* C19 as the code has it: get_cache_ctx stops the program only when malloc
\* fails; for a level other than L1 and L2 it returns NULL, and for L1 and
\* L2 the context of the level's configuration with the three products
C19_UnknownLevelReturnsNull ==
    ctx_call.fn = "get_cache_ctx" =>
        /\ ctx_call.outcome = "aborted" <=> ~ctx_call.malloc_ok
        /\ (ctx_call.malloc_ok /\ ctx_call.cache_level \notin {L1, L2}) =>
               (ctx_call.outcome = "returned" /\ ctx_call.ret = <<>>)
        /\ KnownLevelGivesCtx(ctx_call)

C19_Witness ==
    /\ ctx_call.fn = "get_cache_ctx" /\ ctx_call.cache_level \notin {L1, L2}
    /\ ctx_call.outcome = "returned" /\ ctx_call.ret = <<>>

\* ------------------------------------------------------------------- C20
FirstLines(m, head, s) == {x \in SetLines(m, head, s) : IS_FIRST(m[x].flags) = 1}

\* a ring whose links are inverse to each other and whose sets, each an index
\* of the cache, have one line flagged FIRST each
WellFormedRing(c, m, head) ==
    /\ head \in DOMAIN m
    /\ \A x \in Ring(m, head) :
         /\ m[x].next \in DOMAIN m /\ m[x].prev \in DOMAIN m
         /\ m[m[x].next].prev = x /\ m[m[x].prev].next = x
         /\ m[x].cache_set \in 0..(c.sets - 1)
         /\ Cardinality(FirstLines(m, head, m[x].cache_set)) = 1

MsrmtsOfFirstLines(c, m, w) ==
    /\ w.terminates /\ ~w.fault
    /\ DOMAIN w.res = 0..(c.sets - 1)
    /\ \A s \in 0..(c.sets - 1) :
         IF SetLines(m, w.head, s) = {}
         THEN w.res[s] = CallerRes(c)[s]
         ELSE \A x \in FirstLines(m, w.head, s) : w.res[s] = m[x].time_msrmt
    /\ \A h \in Ring(m, w.head) : get_msrmts_for_all_set(m, h, CallerRes(c)).res = w.res

\* C20: on a well-formed ring get_msrmts_for_all_set(head, res) writes to
\* res[s], for every set s on the ring, the time_msrmt of the line of s that
\* is flagged FIRST, leaves the other entries of res and every line as they
\* were, and gives the same res for every line of the ring as head
C20_MsrmtsOfFirstLines ==
    [][(walk'.fn = "get_msrmts_for_all_set" /\ walk.fn = "none" /\ WellFormedRing(ctx, mem, walk'.head)) =>
          /\ mem' = Measured(mem, walk'.slow)
          /\ MsrmtsOfFirstLines(ctx, mem', walk')]_vars

\* a ring of some sets only, the evicted line being the FIRST line of its set
C20_Witness ==
    /\ walk.fn = "get_msrmts_for_all_set" /\ pc = "set_built"
    /\ WellFormedRing(ctx, mem, walk.head)
    /\ ctx.associativity >= 2
    /\ walk.head # cache_ds
    /\ \E s \in 0..(ctx.sets - 1) : SetLines(mem, walk.head, s) = {} /\ walk.res[s] = 0
    /\ \E s \in 0..(ctx.sets - 1) : walk.res[s] = MISS_TIME

\* ------------------------------------------------------------------- C21
\* the sum of time_msrmt over a set of lines
RECURSIVE SumOfMsrmts(_, _)
SumOfMsrmts(m, lines) ==
    IF lines = {} THEN 0
    ELSE LET x == CHOOSE y \in lines : TRUE IN m[x].time_msrmt + SumOfMsrmts(m, lines \ {x})

PerSetSums(c, m, head, res0, r) ==
    /\ r.terminates /\ ~r.fault
    /\ DOMAIN r.res = 0..(c.sets - 1)
    /\ \A s \in 0..(c.sets - 1) :
         r.res[s] = (res0[s] + SumOfMsrmts(m, SetLines(m, head, s))) % TimeModulus

InOrder(c, m, head, r) ==
    /\ r.terminates /\ ~r.fault
    /\ r.idx = Cardinality(Ring(m, head))
    /\ \A i \in 0..(c.nr_of_cachelines - 1) :
         r.res[i] = IF i < r.idx THEN m[NthLine(m, head, FALSE, i)].time_msrmt ELSE LineRes(c)[i]

\* C21: on the ring a builder returned, get_per_set_sum_of_msrmts(head, res)
\* adds to res[s], for every set s, the sum modulo 2^TimeBits of time_msrmt
\* over the lines of s on the ring, so it leaves the entry of a set that is
\* not on the ring as it was and turns a zeroed res into the sums; and
\* get_all_msrmts_in_order writes as many entries as the ring has lines,
\* entry i being the time_msrmt of the line i steps along prev from head
C21_SumsAndOrder ==
    /\ walk.fn = "get_per_set_sum_of_msrmts" =>
          /\ PerSetSums(ctx, mem, walk.head, FullRes(ctx), walk)
          /\ \A h \in Ring(mem, walk.head) :
               PerSetSums(ctx, mem, h, CallerRes(ctx), get_per_set_sum_of_msrmts(mem, h, CallerRes(ctx)))
    /\ walk.fn = "get_all_msrmts_in_order" => InOrder(ctx, mem, walk.head, walk)

\* sums that wrap around, with a set that is not on the ring
C21_Witness ==
    /\ walk.fn = "get_per_set_sum_of_msrmts" /\ pc = "set_built"
    /\ ctx.associativity >= 2
    /\ \E s \in 0..(ctx.sets - 1) : SetLines(mem, walk.head, s) = {} /\ walk.res[s] = TimeModulus - 1
    /\ \E s \in 0..(ctx.sets - 1) : SetLines(mem, walk.head, s) # {} /\ walk.res[s] < TimeModulus - 1

\* ------------------------------------------------------------------- C22
\* the physical sets of the lines of a page
PageSets(c, fr, page) ==
    {get_phys_cache_set(c, fr, TRUE, page + i * CACHELINE_SIZE) : i \in 0..(CACHE_GROUP_SIZE - 1)}

PrivCountsInRange ==
    /\ \A s \in 0..(ctx.sets - 1) : cnt_lines_per_set[s] <= ctx.associativity
    /\ cl_ptr_idx <= ctx.nr_of_cachelines

\* C22: an iteration of the privileged builder's loop accepts a page only
\* if none of the sets of its CACHE_GROUP_SIZE lines holds associativity
\* lines yet, and it accepts all lines of the page or none; so no counter
\* ever exceeds associativity and cl_ptr_idx never exceeds nr_of_cachelines
C22_PrivNeverOverfull ==
    [][(pc = "priv_loop" /\ brk' # brk) =>
          /\ IF cl_ptr_idx' # cl_ptr_idx
             THEN /\ \A s \in PageSets(ctx, frame', cl_candidates') : cnt_lines_per_set[s] < ctx.associativity
                  /\ cl_ptr_idx' = cl_ptr_idx + CACHE_GROUP_SIZE
                  /\ \A i \in 0..(CACHE_GROUP_SIZE - 1) :
                       cl_ptr_arr'[cl_ptr_idx + i] = cl_candidates' + i * CACHELINE_SIZE
             ELSE /\ cnt_lines_per_set' = cnt_lines_per_set
                  /\ cl_ptr_arr' = cl_ptr_arr
                  /\ \E s \in PageSets(ctx, frame', cl_candidates') : cnt_lines_per_set[s] >= ctx.associativity
          /\ PrivCountsInRange']_vars

\* a page was rejected while another cache group still takes pages
C22_Witness ==
    /\ pc = "priv_loop" /\ rejected >= 1 /\ cl_ptr_idx < ctx.nr_of_cachelines
    /\ \E s \in 0..(ctx.sets - 1) : cnt_lines_per_set[s] = ctx.associativity
    /\ \E s \in 0..(ctx.sets - 1) : cnt_lines_per_set[s] = 0

\* ------------------------------------------------------------------- C23
PrivAllFull == \A s \in 0..(ctx.sets - 1) : cnt_lines_per_set[s] = ctx.associativity

\* the pages the builder allocated and took no line of
PrivRejectedPages ==
    Live(heap) \ {remove_cache_group_set(cl_ptr_arr[i]) : i \in 0..(cl_ptr_idx - 1)}

ChainSet(m, p) == {ChainPtrs(m, p)[i] : i \in 1..Len(ChainPtrs(m, p))}

PrivExitsWhenFull ==
    pc = "priv_loop" =>
        /\ (cl_ptr_idx >= ctx.nr_of_cachelines) <=> PrivAllFull
        /\ cl_ptr_idx >= ctx.nr_of_cachelines =>
               /\ ChainSet(mem, cls_to_del) = PrivRejectedPages
               /\ Len(ChainPtrs(mem, cls_to_del)) = rejected

\* C23: the loop of the privileged builder is left exactly in the states
\* where every counter equals associativity; with an allocator that keeps
\* supplying pages of every cache group the builder returns; and when it
\* returns, the cls_to_del chain holds every rejected page, each once
C23_PrivTerminatesFull ==
    /\ []PrivExitsWhenFull
    /\ [][(pc = "priv_loop" /\ pc' # "priv_loop") => PrivAllFull]_vars
    /\ (pc = "priv_loop") ~> (pc = "allocated")

\* the builder is about to return with two rejected pages on the chain
C23_Witness ==
    /\ pc = "priv_loop" /\ cl_ptr_idx >= ctx.nr_of_cachelines
    /\ rejected >= 2 /\ PrivAllFull /\ ctx.sets > CACHE_GROUP_SIZE

\* ------------------------------------------------------------------- C24
\* the candidate rings of the unprivileged builder, one per page offset
CandidateRing(o) ==
    IF o \in DOMAIN cache_set_ds_ptrs /\ cache_set_ds_ptrs[o] \in DOMAIN mem
    THEN Ring(mem, cache_set_ds_ptrs[o]) ELSE {}

\* C24: with an exact collision oracle no candidate ring of the
\* unprivileged builder ever holds more than associativity lines of one
\* physical cache set
C24_CandidateRingsNeverOverfull ==
    (pc = "unpriv_loop" /\ oracle = "exact") =>
        \A o \in 0..(CACHE_GROUP_SIZE - 1) : \A x \in CandidateRing(o) :
            Cardinality({y \in CandidateRing(o) : MappedSet(ctx, frame, y) = MappedSet(ctx, frame, x)})
                <= ctx.associativity

\* ------------------------------------------------------------------- C25
\* what has_collision returns after a loop that counted n rotations with a
\* collision, for a ring of len lines
DeclaresCollision(n, len) ==
    has_collision_ret([mem |-> mem, status |-> "ok", heads |-> <<>>, collisions_overall |-> n], ctx, len).ret

\* C25 as stated: has_collision declares a collision iff at least
\* len - associativity + 1 of its rotations report one; in unsigned
\* arithmetic that bound is 0 for len = associativity - 1 and above every
\* count for a shorter ring
C25_ThresholdLenMinusAssocPlusOne ==
    pc = "unpriv_loop" =>
        \A len \in 0..MaxLines, n \in 0..MaxLines :
            DeclaresCollision(n, len) <=>
                (len + 1 >= ctx.associativity /\ n >= len + 1 - ctx.associativity)

\* C25 as the code has it: has_collision declares a collision iff at least
\* len - associativity of its rotations report one, so always when
\* len = associativity; for len < associativity the unsigned difference is
\* above every count and it declares none
C25_ThresholdLenMinusAssoc ==
    pc = "unpriv_loop" =>
        \A len \in 0..MaxLines, n \in 0..MaxLines :
            DeclaresCollision(n, len) <=>
                (len >= ctx.associativity /\ n >= len - ctx.associativity)

\* a page was tested against rings longer than the associativity and
\* rejected
C25_Witness ==
    /\ pc = "unpriv_loop" /\ oracle = "exact" /\ rejected >= 1
    /\ \E o \in DOMAIN cache_set_ds_lens : cache_set_ds_lens[o] > ctx.associativity
    /\ ctx.associativity >= 2

\* ------------------------------------------------------------------- C26
\* find_collisions tests line o of the page malloc has just returned against
\* ring o: the memory and the frames of that call, for the next page
FreshPage == brk * PAGE_SIZE

FreshMem == MemAlloc(mem, ZeroPage(FreshPage))

SameRing(m, n, head) ==
    /\ Ring(n, head) = Ring(m, head)
    /\ \A x \in Ring(m, head) : n[x].next = m[x].next /\ n[x].prev = m[x].prev

OneTestPerLine(h, m, cand, head) ==
    /\ h.status = "ok"
    /\ Len(h.heads) = Cardinality(Ring(m, head))
    /\ \A i \in 1..Len(h.heads) : h.heads[i] = NthLine(m, head, TRUE, i - 1)
    /\ SameRing(m, h.mem, head)
    /\ cand \notin Ring(h.mem, head)

FreshTest(o, pfn, timing) ==
    has_collision(FreshMem, ctx, FrameSet(frame, FreshPage, pfn), timing,
                  FreshPage + o * CACHELINE_SIZE, cache_set_ds_ptrs[o], cache_set_ds_lens[o])

\* C26: has_collision(cand, ring, len) on a ring of at least 2 lines makes
\* one pass per line of the ring, each with another line as cl_head, and
\* ends; when it returns the ring has the members and the next and prev
\* links it had, and cand cannot be reached from it
C26_OneTestPerLineRingKept ==
    (pc = "unpriv_loop" /\ cache_set_ds_ptrs # <<>>) =>
        \A o \in 0..(CACHE_GROUP_SIZE - 1) :
            Cardinality(CandidateRing(o)) >= 2 =>
                \A pfn \in FreshFrames(ctx, frame), timing \in {"exact", "slow", "fast"} :
                    OneTestPerLine(FreshTest(o, pfn, timing), FreshMem,
                                   FreshPage + o * CACHELINE_SIZE, cache_set_ds_ptrs[o])

\* a ring of three lines or more on which a line of the next page collides
C26_Witness ==
    /\ pc = "unpriv_loop"
    /\ cache_set_ds_ptrs # <<>>
    /\ \E o \in 0..(CACHE_GROUP_SIZE - 1), pfn \in FreshFrames(ctx, frame) :
         /\ Cardinality(CandidateRing(o)) >= 3
         /\ FreshTest(o, pfn, "exact").ret
         /\ Len(FreshTest(o, pfn, "exact").heads) >= 3

\* ------------------------------------------------------------------- C27
\* The calls of identify_cache_sets the builder makes for the next page:
\* [m, fr, head, len], from the main loop after find_collisions has found a
\* collision for every line of the page, and from finish_identifying_groups.
IdentifyCalls ==
    IF pc # "unpriv_loop" \/ cache_set_ds_ptrs = <<>> THEN {}
    ELSE IF cl_ptr_idx < ctx.nr_of_cachelines
    THEN {[m |-> f.mem, fr |-> f.fr, head |-> cache_set_ds_ptrs[0], len |-> cache_set_ds_lens[0]] :
            f \in {g \in {[fr |-> FrameSet(frame, FreshPage, pfn)] @@
                          find_collisions(FreshMem, ctx, FrameSet(frame, FreshPage, pfn), oracle, nf,
                                          FreshPage, cache_set_ds_ptrs, cache_set_ds_lens) :
                            pfn \in UnprivFrames(ctx, frame, oracle),
                            nf \in NoiseFind(ctx, oracle, cache_set_ds_lens)} :
                     g.status = "ok" /\ g.collisions = CACHE_GROUP_SIZE}}
    ELSE IF cache_group < ctx.sets \div CACHE_GROUP_SIZE
    THEN {[m |-> FreshMem, fr |-> FrameSet(frame, FreshPage, pfn), head |-> cache_set_ds_ptrs[0],
           len |-> CACHE_GROUP_SIZE] : pfn \in UnprivFrames(ctx, frame, oracle)}
    ELSE {}

\* the state after the do-while loop of identify_cache_sets in call k
IdentifyLoopOf(k, noise) ==
    identify_loop([mem |-> k.m, identified_cls |-> <<>>, identified_cls_idx |-> 0, status |-> "ok"],
                  ctx, k.fr, oracle, noise, FreshPage, k.head, k.len, k.head, FreshPage, 1,
                  Cardinality(DOMAIN k.m))

\* the lines of the ring that are not yet initialised and that has_collision
\* finds to collide when the clock is exact
FoundToCollide(k) ==
    {x \in Ring(k.m, k.head) :
        /\ IS_CACHE_GROUP_INIT(k.m[x].flags) = 0
        /\ has_collision(cl_replace(k.m, FreshPage, x), ctx, k.fr, "exact", x,
                         IF x = k.head THEN FreshPage ELSE k.head, k.len).ret}

Range(f) == {f[i] : i \in DOMAIN f}

PagesOf(lines) == {remove_cache_group_set(x) : x \in lines}

Tagged(m, n, pages, grp) ==
    \A x \in DOMAIN m :
        IF remove_cache_group_set(x) \in pages
        THEN /\ IS_CACHE_GROUP_INIT(n[x].flags) = 1
             /\ n[x].flags = SET_CACHE_GROUP_INIT(m[x].flags)
             /\ n[x].cache_set = grp * CACHE_GROUP_SIZE + (x % PAGE_SIZE) \div CACHELINE_SIZE
        ELSE n[x].flags = m[x].flags /\ n[x].cache_set = m[x].cache_set

IdentifyOutcome(k, l, r) ==
    /\ r.status = "ok"
    /\ Len(l.identified_cls) <= ctx.associativity
    /\ oracle = "exact" => l.identified_cls_idx = Cardinality(FoundToCollide(k))
    /\ IF l.identified_cls_idx = ctx.associativity
       THEN /\ r.cache_group = cache_group + 1
            /\ Cardinality(PagesOf(Range(l.identified_cls))) = ctx.associativity
            /\ oracle = "exact" => Range(l.identified_cls) = PagesOf(FoundToCollide(k))
            /\ Tagged(k.m, r.mem, Range(l.identified_cls), cache_group)
       ELSE /\ r.cache_group = cache_group
            /\ Tagged(k.m, r.mem, {}, cache_group)
    /\ SameRing(k.m, r.mem, k.head)
    /\ FreshPage \notin Ring(r.mem, k.head)

\* C27: identify_cache_sets adds one to the group counter exactly when it
\* finds associativity uninitialised lines of the ring to collide; then every
\* line of the pages of these lines gets CACHE_GROUP_INIT and the set
\* group * CACHE_GROUP_SIZE + its offset in the page, otherwise no set, flag
\* or counter changes; in both cases the ring keeps its members and order
\* without the collider and identified_cls gets at most associativity entries
C27_IdentifyAdvancesAndTags ==
    \A k \in IdentifyCalls :
        \A noise \in NoiseIdent(oracle, Cardinality(Ring(k.m, k.head))) :
            IdentifyOutcome(k, IdentifyLoopOf(k, noise),
                            identify_mark(IdentifyLoopOf(k, noise), ctx, cache_group))

\* ------------------------------------------------------------------- C28
\* finish_identifying_groups has returned: its while loop is left
FinishReturned ==
    /\ pc = "unpriv_loop"
    /\ cache_set_ds_ptrs # <<>>
    /\ cl_ptr_idx >= ctx.nr_of_cachelines
    /\ cache_group >= ctx.sets \div CACHE_GROUP_SIZE

\* the group numbers the lines of a page carry, the pages of a group
GroupsOfPage(page) ==
    {mem[x].cache_set \div CACHE_GROUP_SIZE :
        x \in {y \in DOMAIN mem : remove_cache_group_set(y) = page /\ IS_CACHE_GROUP_INIT(mem[y].flags) = 1}}

GroupPages(g) == {page \in PagesOf(DOMAIN mem) : g \in GroupsOfPage(page)}

\* C28: in an unprivileged build the group counter never exceeds
\* sets / CACHE_GROUP_SIZE; when finish_identifying_groups returns it equals
\* sets / CACHE_GROUP_SIZE, every group number below it is carried by
\* associativity pages, no page carries two group numbers and every line in
\* cl_ptr_arr has CACHE_GROUP_INIT
C28_AllGroupsIdentified ==
    /\ (pc = "unpriv_loop" /\ cache_set_ds_ptrs # <<>>) => cache_group <= ctx.sets \div CACHE_GROUP_SIZE
    /\ FinishReturned =>
         /\ cache_group = ctx.sets \div CACHE_GROUP_SIZE
         /\ \A g \in 0..(cache_group - 1) : Cardinality(GroupPages(g)) = ctx.associativity
         /\ \A page \in PagesOf(DOMAIN mem) : Cardinality(GroupsOfPage(page)) <= 1
         /\ \A i \in DOMAIN cl_ptr_arr :
              /\ IS_CACHE_GROUP_INIT(mem[cl_ptr_arr[i]].flags) = 1
              /\ mem[cl_ptr_arr[i]].cache_set \div CACHE_GROUP_SIZE < cache_group

\* finish_identifying_groups returns with two groups of two pages, one of
\* them identified by the main loop and one by finish_identifying_groups
C28_Witness ==
    /\ FinishReturned
    /\ ctx.sets \div CACHE_GROUP_SIZE >= 2
    /\ ctx.associativity >= 2
    /\ rejected >= 2

\* ------------------------------------------------------------------- C29
\* The pages of the main loop are the blocks of the heap, in the order of
\* their addresses; a page collided as a whole when it is on the chain of
\* pages to free, it came from a double allocation when its block has two
\* pages.
MainLoop == pc = "unpriv_loop" /\ cache_set_ds_ptrs # <<>> /\ cl_ptr_idx < ctx.nr_of_cachelines

LastPage(h, below) ==
    IF \E b \in DOMAIN h : b < below
    THEN CHOOSE b \in DOMAIN h : b < below /\ \A b2 \in DOMAIN h : b2 < below => b2 <= b
    ELSE NULL

\* the pages in a row that collided as a whole, back to the last accepted
\* page or to the page of the last double allocation, that page included
RECURSIVE CollidedRun(_, _, _)
CollidedRun(h, collided, page) ==
    IF page = NULL \/ page \notin collided THEN 0
    ELSE IF h[page].size = 2 * PAGE_SIZE THEN 1
    ELSE 1 + CollidedRun(h, collided, LastPage(h, page))

RunNow == CollidedRun(heap, Range(ChainPtrs(mem, cls_to_del)), LastPage(heap, brk * PAGE_SIZE))

CounterIsRun ==
    MainLoop =>
        /\ repeated_collisions = RunNow
        /\ RunNow <= 3
        /\ \A i \in 0..(cl_ptr_idx - 1) : remove_cache_group_set(cl_ptr_arr[i]) \in DOMAIN heap
        /\ \A x \in DOMAIN mem : remove_cache_group_set(x) \in DOMAIN heap

MainLoopStep ==
    MainLoop /\ brk' # brk =>
        /\ heap'[FreshPage].size = (IF RunNow = 3 THEN 2 * PAGE_SIZE ELSE PAGE_SIZE)
        /\ brk' = brk + heap'[FreshPage].size \div PAGE_SIZE
        /\ (pc' = pc /\ cl_ptr_idx' # cl_ptr_idx) => repeated_collisions' = 0
        /\ (pc' = pc /\ cl_ptr_idx' = cl_ptr_idx) =>
              repeated_collisions' = (IF RunNow = 3 THEN 1 ELSE repeated_collisions + 1)

\* C29: the main loop of the unprivileged builder asks for 2 * PAGE_SIZE
\* exactly when the three latest pages, counted back to the last accepted
\* page or to the page of the last double allocation, collided in every
\* line; an accepted page and a double allocation start the counter of
\* repeated collisions again; the second page of a double allocation holds
\* no line
C29_DoubleAfterThreeCollisions == []CounterIsRun /\ [][MainLoopStep]_vars

\* after three collided pages a double allocation whose page collided too,
\* so that the counter is 1 with four collided pages in a row
C29_Witness ==
    /\ MainLoop
    /\ rejected >= 4
    /\ repeated_collisions = 1
    /\ \E b \in DOMAIN heap : heap[b].size = 2 * PAGE_SIZE /\ b \in Range(ChainPtrs(mem, cls_to_del))

\* ------------------------------------------------------------------- C30
\* the associativity lines one call of probe_cacheset times, from x
RECURSIVE ProbedLines(_, _, _)
ProbedLines(m, x, n) ==
    IF n = 0 \/ x \notin DOMAIN m THEN {} ELSE {x} \cup ProbedLines(m, m[x].prev, n - 1)

\* every call of probe_cacheset in the round times the lines of one set, all
\* of them, and no set twice: the round starts on a set boundary
OnSetBoundary(c, m, w) ==
    /\ \A i \in DOMAIN w.visited :
         /\ Cardinality(ProbedLines(m, w.visited[i], c.associativity)) = c.associativity
         /\ ProbedLines(m, w.visited[i], c.associativity)
               = SetLines(m, w.head, m[w.visited[i]].cache_set)
    /\ \A i, j \in DOMAIN w.visited :
         i # j => m[w.visited[i]].cache_set # m[w.visited[j]].cache_set

\* C30: from the entry prepare_cache_ds returned, every round
\* h' = prime(h) or prime_rev(h), h'' = probe(level, h') ends after sets
\* calls of probe_cacheset with h'' = h: after any number of rounds the
\* handle is the entry of the builder and lies on a set boundary
C30_RoundKeepsHandle ==
    walk.fn = "round" =>
        /\ walk.terminates
        /\ walk.steps = ctx.sets
        /\ walk.ret = walk.head
        /\ walk.head = cache_ds
        /\ walk.primed = mem[cache_ds].prev
        /\ OnSetBoundary(ctx, mem, walk)

\* a round on a structure of four sets or more with two lines or more each
C30_Witness ==
    /\ walk.fn = "round"
    /\ walk.terminates
    /\ ctx.sets >= 4
    /\ ctx.associativity >= 2
    /\ Len(walk.visited) = ctx.sets

\* ------------------------------------------------------------------- C31
\* the lines of R are one ring along next, and prev is the inverse of next
LinkConsistent(m, R) ==
    \A x \in R :
        /\ Ring(m, x) = R
        /\ m[x].prev \in R
        /\ m[m[x].next].prev = x
        /\ m[m[x].prev].next = x

SameLinks(m, n, lines) == \A x \in lines : n[x].next = m[x].next /\ n[x].prev = m[x].prev

Inserted(m, n, last_cl, new_cl) ==
    IF last_cl = NULL
    THEN n[new_cl].next = new_cl /\ n[new_cl].prev = new_cl /\ SameLinks(m, n, DOMAIN m \ {new_cl})
    ELSE /\ LinkConsistent(m, Ring(m, last_cl))
         /\ LinkConsistent(n, Ring(m, last_cl) \cup {new_cl})
         /\ Cardinality(Ring(n, last_cl)) = Cardinality(Ring(m, last_cl)) + 1
         /\ n[last_cl].next = new_cl
         /\ n[new_cl].next = m[last_cl].next
         /\ \A x \in Ring(m, last_cl) \ {last_cl} : n[x].next = m[x].next

\* C31: cl_insert(anchor, n) on a link-consistent ring of k >= 1 lines gives
\* a link-consistent ring of k + 1 lines with n directly after anchor, and a
\* ring of n alone when anchor is NULL; cl_remove(n) after it gives every
\* line of the ring the next and prev it had
C31_InsertThenRemove ==
    /\ walk.fn = "cl_insert" => Inserted(walk.before, mem, walk.last_cl, walk.new_cl)
    /\ walk.fn = "cl_insert_remove" => SameLinks(walk.before, mem, DOMAIN mem \ {walk.new_cl})

\* a line inserted into a ring of two lines or more and removed again
C31_Witness ==
    /\ walk.fn = "cl_insert_remove"
    /\ walk.last_cl # NULL
    /\ Cardinality(Ring(walk.before, walk.last_cl)) >= 2

\* ------------------------------------------------------------------- C32
Replaced(m, n, new_cl, old_cl) ==
    /\ LinkConsistent(n, (Ring(m, old_cl) \ {old_cl}) \cup {new_cl})
    /\ n[new_cl].next = (IF m[old_cl].next = old_cl THEN new_cl ELSE m[old_cl].next)
    /\ n[new_cl].prev = (IF m[old_cl].prev = old_cl THEN new_cl ELSE m[old_cl].prev)
    /\ n[old_cl] = m[old_cl]

\* C32: on a link-consistent ring of one line or more, cl_replace(new, old)
\* puts new in the place of old and leaves the links of old as they were;
\* cl_replace(old, new) after it gives every line of the ring the next and
\* prev it had
C32_ReplaceAndBack ==
    /\ walk.fn = "cl_replace" => Replaced(walk.before, mem, walk.new_cl, walk.old_cl)
    /\ walk.fn = "cl_replace_back" => SameLinks(walk.before, mem, Ring(walk.before, walk.old_cl))

\* the same for rings of two lines or more
ReplaceAndBackTwoLines ==
    (walk.fn \in {"cl_replace", "cl_replace_back"} /\ Cardinality(Ring(walk.before, walk.old_cl)) >= 2) =>
        C32_ReplaceAndBack

\* ------------------------------------------------------------------- C33
\* C33: for all measured times t and overheads o, is_cached is true exactly
\* when t - o <= access_time as integers: an access with t < o counts as a
\* hit
C33_CachedIffDiffBelowThreshold ==
    walk.fn = "is_cached" => (walk.ret <=> walk.t - walk.o <= walk.access_time)

\* the same for the measurements with t >= o
CachedIffDiffBelowThresholdNoWrap ==
    (walk.fn = "is_cached" /\ walk.t >= walk.o) => (walk.ret <=> walk.t - walk.o <= walk.access_time)

\* ------------------------------------------------------------------- C36
RandomPermInBounds(w) ==
    /\ w.status = "ok"
    /\ w.i = 0
    /\ w.swaps <= (IF w.arr_len = 0 THEN 0 ELSE w.arr_len - 1)
    /\ w.touched \subseteq 0..(w.arr_len - 1)
    /\ DOMAIN w.arr = 0..(w.arr_len - 1)
    /\ {w.arr[i] : i \in DOMAIN w.arr} = 0..(w.arr_len - 1)

\* C36: for every arr_len >= 0 and all results of rand(), random_perm ends
\* after at most arr_len - 1 swaps, reads and writes only the indices
\* 0..arr_len-1 and leaves arr a permutation of what it held
C36_RandomPermStaysInArray ==
    walk.fn = "random_perm" => RandomPermInBounds(walk)

\* the same for arr_len >= 1
RandomPermStaysInArrayNonEmpty ==
    (walk.fn = "random_perm" /\ walk.arr_len >= 1) => RandomPermInBounds(walk)

\* ------------------------------------------------------------------- C34
\* the line of set s that allocate_cache_ds stored first in cl_ptr_arr
FirstStored(arr, m, s) ==
    arr[CHOOSE i \in DOMAIN arr :
            /\ m[arr[i]].cache_set = s
            /\ \A k \in DOMAIN arr : m[arr[k]].cache_set = s => i <= k]

FirstIsFirstStored(c, arr, m, n, entry) ==
    /\ IS_FIRST(n[entry].flags) = 1
    /\ \A s \in 0..(c.sets - 1) :
         /\ FirstLines(n, entry, s) = {FirstStored(arr, m, s)}
         /\ c.addressing = VIRTUAL =>
              /\ \A x \in SetLines(n, entry, s) : FirstStored(arr, m, s) <= x
              /\ \E b \in DOMAIN heap :
                   b <= FirstStored(arr, m, s) /\ FirstStored(arr, m, s) < b + c.sets * CACHELINE_SIZE

BuildStep == pc = "allocated" /\ pc' = "built"

SetBuildStep == pc = "built" /\ pc' = "set_built"

\* C34: the entry prepare_cache_ds and prepare_cache_set_ds return carries
\* FIRST, and in every set the line with FIRST is the line stored first for
\* the set in allocation order (for a VIRTUAL context the line of the set
\* with the lowest address, in the first sets * CACHELINE_SIZE bytes of the
\* block), whatever permutations are drawn
C34_FirstIsFirstStored ==
    [][/\ BuildStep => FirstIsFirstStored(ctx, cl_ptr_arr, mem, mem', cache_ds')
       /\ SetBuildStep => IS_FIRST(mem'[cache_ds'].flags) = 1]_vars

\* the same for the structures in which each set has one FIRST line (C3)
FirstIsFirstStoredOneFirst ==
    [][/\ (BuildStep /\ C3_OneFirstOneLastPerSet') => FirstIsFirstStored(ctx, cl_ptr_arr, mem, mem', cache_ds')
       /\ (SetBuildStep /\ C3_OneFirstOneLastPerSet) => IS_FIRST(mem'[cache_ds'].flags) = 1]_vars

\* ------------------------------------------------------------------- C35
\* in the unprivileged builder every candidate ring has cl_ptr_idx /
\* CACHE_GROUP_SIZE lines, the length cache_set_ds_lens holds for it
LensAreRingLengths ==
    (pc = "unpriv_loop" /\ cache_set_ds_ptrs # <<>>) =>
        \A o \in 0..(CACHE_GROUP_SIZE - 1) :
            /\ cache_set_ds_lens[o] = Cardinality(CandidateRing(o))
            /\ cache_set_ds_lens[o] * CACHE_GROUP_SIZE = cl_ptr_idx

\* C35: every ring length handed to identify_cache_sets and has_collision
\* is the number of lines of the ring: in the main loop each candidate ring
\* has cl_ptr_idx / CACHE_GROUP_SIZE = cache_set_ds_lens[o] lines, and the
\* CACHE_GROUP_SIZE finish_identifying_groups passes is the final length
\* nr_of_cachelines / CACHE_GROUP_SIZE of the ring
C35_LengthArgumentIsRingLength ==
    /\ LensAreRingLengths
    /\ \A k \in IdentifyCalls : k.len = Cardinality(Ring(k.m, k.head))

\* the same for the calls of the main loop
LengthArgumentIsRingLengthMainLoop ==
    /\ LensAreRingLengths
    /\ MainLoop => \A k \in IdentifyCalls : k.len = Cardinality(Ring(k.m, k.head))

\* ------------------------------------------------------------------- C37
\* every line has the next, prev, cache_set and flags it had
SameButTime(m, n) ==
    /\ DOMAIN n = DOMAIN m
    /\ \A x \in DOMAIN m :
         /\ n[x].next = m[x].next /\ n[x].prev = m[x].prev
         /\ n[x].cache_set = m[x].cache_set /\ n[x].flags = m[x].flags

WalkFns == {"prime", "prime_rev", "probe_full_ds", "get_cache_ds_len"}

ExtractFns == {"get_msrmts_for_all_set", "get_per_set_sum_of_msrmts", "get_all_msrmts_in_order"}

\* a call of a caller of the structure: the extraction functions come after
\* the measurement that Measured stands for
CallerStep ==
    /\ walk'.fn \in WalkFns => mem' = mem
    /\ walk'.fn \in ExtractFns => mem' = Measured(mem, walk'.slow)
    /\ walk'.fn = "probe_all_cachelines" =>
         /\ walk'.terminates
         /\ SameButTime(mem, mem')
         /\ \A x \in Ring(mem, cache_ds) : mem'[x].time_msrmt \in {HIT_TIME, MISS_TIME}
    /\ walk'.fn # "none" =>
         /\ SameButTime(mem, mem')
         /\ StepsToReturn(mem', cache_ds, TRUE) = StepsToReturn(mem, cache_ds, TRUE)
         /\ StepsToReturn(mem', cache_ds, FALSE) = StepsToReturn(mem, cache_ds, FALSE)

\* C37: prime, prime_rev, probe_full_ds, get_cache_ds_len and the extraction
\* functions change no field of a line, and probe_all_cachelines returns
\* with the next, prev, cache_set and flags of every line as they were (only
\* time_msrmt differs): the topology of a built structure stays
C37_CallersKeepTopology == [][(pc \in {"built", "set_built"} /\ walk' # walk) => CallerStep]_vars

\* probe_all_cachelines has measured a structure of four lines or more, one
\* of them as a miss
C37_Witness ==
    /\ walk.fn = "probe_all_cachelines"
    /\ walk.terminates
    /\ Cardinality(Ring(mem, cache_ds)) >= 4
    /\ \E x \in Ring(mem, cache_ds) : mem[x].time_msrmt = MISS_TIME
    /\ \A x \in Ring(mem, cache_ds) : mem[x].time_msrmt \in {HIT_TIME, MISS_TIME}

====
